---- MODULE Spec2Model ----
(***************************************************************************)
(* Model of the DeviceSimulator backend: the polling scheduler             *)
(* (services/data_writer.py), the sink adapters it drives                  *)
(* (services/protocols/*.py, services/tdengine_service.py) and the         *)
(* generation strategies and error injector                                *)
(* (services/simulation_engine.py, services/data_generator.py).            *)
(*                                                                         *)
(* Numbers are fixed-point integers: the source's floats are modelled in   *)
(* units of 1/Scale, so 1.0 is Scale and the factor 0.01 is a division by  *)
(* 100.  Random draws are \E choices over the values of the model's grid.  *)
(***************************************************************************)
EXTENDS Integers, Sequences, FiniteSets, TLC

VARIABLES
    \* ---- DataWriter (services/data_writer.py) ----
    running,            \* DataWriter.running
    wpc,                \* position of the worker thread in _write_data_loop
    cpc,                \* position of the thread calling start()/stop()
    ret,                \* last value returned by start()/stop()
    now,                \* wall clock, time.time(), in seconds
    current_time,       \* local of _write_data_loop
    last_cache_update,  \* DataWriter._last_cache_update
    device_cache,       \* DataWriter._device_cache (sequence of device ids)
    registry,           \* device id -> status, owned by DeviceService
    widx,               \* index of the device being processed in the tick
    tdengine_connected, \* local of process_devices
    data,               \* sample of the device being processed
    tickLog,            \* per device: what this tick did for it
    tickFail,           \* failure seen in the current iteration
    stopMidTick,        \* device in progress when stop() cleared the flag
    \* ---- sinks ----
    td,                 \* tdengine_service: enabled flag and conn
    mqtt_connected,     \* MQTTService.connected (and client set)
    modbus,             \* ModbusService: running, device_mappings, registers
    opcua_running,      \* OPCUAService.running (and loop set)
    \* ---- generation strategies and error injector ----
    rw,                 \* RANDOM_WALK parameter, its params dict, last value
    lin,                \* LINEAR parameter, its params dict, last value
    err,                \* ErrorInjector configuration, context, last call
    \* ---- units checked on their own ----
    logic,              \* LogicEngine.evaluate: arguments, locals, position, result
    stable,             \* a super table of the store, the parameter list, the last schema sync
    fieldbus,           \* ModbusService on its own: whether a new data store replaced a used one
    e2e,                \* one device with one RANDOM_WALK parameter, ticked by process_devices
    payload,            \* the filtering of a sample for the time-series sink
    store,              \* SimulationStateManager._states, the device table, the last operation
    stamps,             \* the polling loop and the wall clock: timestamps of the samples
    tdc,                \* TDengineService.conn, the server, the ticks writing to it
    gen,                \* the generation state of one parameter across ticks and cache refreshes
    callers,            \* threads calling SimulationStateManager.get_state at the same time
    alloc,              \* threads inside ModbusService.update at the same time
    post,               \* DataGenerator.generate_data after the strategy: noise and anomaly
    hr,                 \* ModbusService with devices of several parameters: mappings and holding registers
    opc,                \* OPCUAService: update tasks on the event loop, the nodes of the address space
    sched,              \* DataWriter.start and stop called from several threads, the worker threads
    mq                  \* MQTTService: the client, its lock, the settings, the threads in start and stop

vars == <<running, wpc, cpc, ret, now, current_time, last_cache_update,
          device_cache, registry, widx, tdengine_connected, data, tickLog,
          tickFail, stopMidTick, td, mqtt_connected, modbus, opcua_running,
          rw, lin, err,
          logic, stable, fieldbus, e2e, payload, store, stamps, tdc, gen, callers, alloc, post, hr, opc, sched, mq>>

writerVars == <<running, wpc, cpc, ret, now, current_time, last_cache_update,
                device_cache, registry, widx, tdengine_connected, data,
                tickLog, tickFail, stopMidTick, td, mqtt_connected, modbus,
                opcua_running>>

engineVars == <<rw, lin, err>>

\* ---------------------------------------------------------------------
\* Bounds of the model
\* ---------------------------------------------------------------------
NumDevices == 2
MaxTime == 13
\* largest magnitude a value without bounds is followed to
ValueCap == 300
\* largest clock reading and largest accumulated drift of the error injector
MaxErrTime == 4
DriftCap == 9

\* ---------------------------------------------------------------------
\* Program constants
\* ---------------------------------------------------------------------
CacheTtl == 5
\* the default step range is 1/StepFraction of the span (factor 0.01)
StepFraction == 100
\* fixed-point: 1.0 is Scale units, so that the factor 0.01 is exact
Scale == StepFraction
RegisterBase == 100
RegisterBlock == 100
WordMod == 65536

\* Optional values: None is the empty sequence, a present value v is <<v>>.
None == <<>>
Some(v) == <<v>>
Val(o) == o[1]
Max(a, b) == IF a >= b THEN a ELSE b
Min(a, b) == IF a <= b THEN a ELSE b
Abs(a) == IF a >= 0 THEN a ELSE -a

DeviceIds == 1..NumDevices
Sinks == {"td", "mqtt", "modbus", "opcua"}

\* A generated value: a finite number n, or a non-finite float (inf / nan).
SampleValues == {[finite |-> TRUE, n |-> 5], [finite |-> TRUE, n |-> -1],
                 [finite |-> FALSE, n |-> 0]}
NoData == [finite |-> TRUE, n |-> 0]

EmptyLog == [d \in DeviceIds |-> [gen |-> "none", sinks |-> {}]]

RECURSIVE RunningOf(_, _)
\* [d for d in all_devices if d.status == "running"], in registry order
RunningOf(reg, d) ==
    IF d > NumDevices THEN <<>>
    ELSE (IF reg[d] = "running" THEN <<d>> ELSE <<>>) \o RunningOf(reg, d + 1)

\* Sinks that take a sample in the current configuration.
EnabledSinks ==
    (IF tdengine_connected THEN {"td"} ELSE {})
    \cup (IF mqtt_connected THEN {"mqtt"} ELSE {})
    \cup (IF modbus.running THEN {"modbus"} ELSE {})
    \cup (IF opcua_running THEN {"opcua"} ELSE {})

InTick == wpc \in {"gen", "td", "mqtt", "modbus", "opcua"}

\* ---------------------------------------------------------------------
\* Idle values of the engine variables (used by the scheduler's spec)
\* ---------------------------------------------------------------------
IdleRw == [on |-> FALSE]
IdleLin == [on |-> FALSE]
IdleErr == [on |-> FALSE]

\* ---------------------------------------------------------------------
\* DataWriter
\* ---------------------------------------------------------------------
WriterIdle ==
    /\ running = FALSE
    /\ wpc = "none"
    /\ cpc = "idle"
    /\ ret = [op |-> "none", val |-> FALSE]
    /\ now = CacheTtl + 1
    /\ current_time = 0
    /\ last_cache_update = 0
    /\ device_cache = <<>>
    /\ widx = 0
    /\ tdengine_connected = FALSE
    /\ data = NoData
    /\ tickLog = EmptyLog
    /\ tickFail = "none"
    /\ stopMidTick = 0

EngineIdle ==
    /\ rw = IdleRw
    /\ lin = IdleLin
    /\ err = IdleErr

\* The scheduler at rest: nothing started, no device, no sink.
WriterOff ==
    /\ WriterIdle
    /\ registry = [d \in DeviceIds |-> "stopped"]
    /\ td = [enabled |-> FALSE, conn |-> FALSE]
    /\ mqtt_connected = FALSE
    /\ modbus = [running |-> FALSE, device_mappings |-> <<>>, registers |-> <<>>]
    /\ opcua_running = FALSE

\* BEGIN unit variables
unitVars == <<logic, stable, fieldbus, e2e, payload, store, stamps, tdc, gen, callers, alloc, post, hr, opc, sched, mq>>

\* a unit that is not exercised by the specification at hand
Off == [on |-> FALSE]

UnitIdle ==
    /\ logic = Off
    /\ stable = Off
    /\ fieldbus = Off
    /\ e2e = Off
    /\ payload = Off
    /\ store = Off
    /\ stamps = Off
    /\ tdc = Off
    /\ gen = Off
    /\ callers = Off
    /\ alloc = Off
    /\ post = Off
    /\ hr = Off
    /\ opc = Off
    /\ sched = Off
    /\ mq = Off

unitsButLogic == <<stable, fieldbus, e2e, payload, store, stamps, tdc, gen, callers, alloc, post, hr, opc, sched, mq>>
restOfLogic == <<writerVars, engineVars, unitsButLogic>>
RestIdleLogic ==
    /\ WriterOff
    /\ EngineIdle
    /\ stable = Off
    /\ fieldbus = Off
    /\ e2e = Off
    /\ payload = Off
    /\ store = Off
    /\ stamps = Off
    /\ tdc = Off
    /\ gen = Off
    /\ callers = Off
    /\ alloc = Off
    /\ post = Off
    /\ hr = Off
    /\ opc = Off
    /\ sched = Off
    /\ mq = Off

unitsButStable == <<logic, fieldbus, e2e, payload, store, stamps, tdc, gen, callers, alloc, post, hr, opc, sched, mq>>
restOfStable == <<writerVars, engineVars, unitsButStable>>
RestIdleStable ==
    /\ WriterOff
    /\ EngineIdle
    /\ logic = Off
    /\ fieldbus = Off
    /\ e2e = Off
    /\ payload = Off
    /\ store = Off
    /\ stamps = Off
    /\ tdc = Off
    /\ gen = Off
    /\ callers = Off
    /\ alloc = Off
    /\ post = Off
    /\ hr = Off
    /\ opc = Off
    /\ sched = Off
    /\ mq = Off

unitsButFieldbus == <<logic, stable, e2e, payload, store, stamps, tdc, gen, callers, alloc, post, hr, opc, sched, mq>>
restOfFieldbus == <<writerVars, engineVars, unitsButFieldbus>>
RestIdleFieldbus ==
    /\ WriterOff
    /\ EngineIdle
    /\ logic = Off
    /\ stable = Off
    /\ e2e = Off
    /\ payload = Off
    /\ store = Off
    /\ stamps = Off
    /\ tdc = Off
    /\ gen = Off
    /\ callers = Off
    /\ alloc = Off
    /\ post = Off
    /\ hr = Off
    /\ opc = Off
    /\ sched = Off
    /\ mq = Off

unitsButE2e == <<logic, stable, fieldbus, payload, store, stamps, tdc, gen, callers, alloc, post, hr, opc, sched, mq>>
restOfE2e == <<writerVars, engineVars, unitsButE2e>>
RestIdleE2e ==
    /\ WriterOff
    /\ EngineIdle
    /\ logic = Off
    /\ stable = Off
    /\ fieldbus = Off
    /\ payload = Off
    /\ store = Off
    /\ stamps = Off
    /\ tdc = Off
    /\ gen = Off
    /\ callers = Off
    /\ alloc = Off
    /\ post = Off
    /\ hr = Off
    /\ opc = Off
    /\ sched = Off
    /\ mq = Off

unitsButPayload == <<logic, stable, fieldbus, e2e, store, stamps, tdc, gen, callers, alloc, post, hr, opc, sched, mq>>
restOfPayload == <<writerVars, engineVars, unitsButPayload>>
RestIdlePayload ==
    /\ WriterOff
    /\ EngineIdle
    /\ logic = Off
    /\ stable = Off
    /\ fieldbus = Off
    /\ e2e = Off
    /\ store = Off
    /\ stamps = Off
    /\ tdc = Off
    /\ gen = Off
    /\ callers = Off
    /\ alloc = Off
    /\ post = Off
    /\ hr = Off
    /\ opc = Off
    /\ sched = Off
    /\ mq = Off

unitsButStore == <<logic, stable, fieldbus, e2e, payload, stamps, tdc, gen, callers, alloc, post, hr, opc, sched, mq>>
restOfStore == <<writerVars, engineVars, unitsButStore>>
RestIdleStore ==
    /\ WriterOff
    /\ EngineIdle
    /\ logic = Off
    /\ stable = Off
    /\ fieldbus = Off
    /\ e2e = Off
    /\ payload = Off
    /\ stamps = Off
    /\ tdc = Off
    /\ gen = Off
    /\ callers = Off
    /\ alloc = Off
    /\ post = Off
    /\ hr = Off
    /\ opc = Off
    /\ sched = Off
    /\ mq = Off

unitsButStamps == <<logic, stable, fieldbus, e2e, payload, store, tdc, gen, callers, alloc, post, hr, opc, sched, mq>>
restOfStamps == <<writerVars, engineVars, unitsButStamps>>
RestIdleStamps ==
    /\ WriterOff
    /\ EngineIdle
    /\ logic = Off
    /\ stable = Off
    /\ fieldbus = Off
    /\ e2e = Off
    /\ payload = Off
    /\ store = Off
    /\ tdc = Off
    /\ gen = Off
    /\ callers = Off
    /\ alloc = Off
    /\ post = Off
    /\ hr = Off
    /\ opc = Off
    /\ sched = Off
    /\ mq = Off

unitsButTdc == <<logic, stable, fieldbus, e2e, payload, store, stamps, gen, callers, alloc, post, hr, opc, sched, mq>>
restOfTdc == <<writerVars, engineVars, unitsButTdc>>
RestIdleTdc ==
    /\ WriterOff
    /\ EngineIdle
    /\ logic = Off
    /\ stable = Off
    /\ fieldbus = Off
    /\ e2e = Off
    /\ payload = Off
    /\ store = Off
    /\ stamps = Off
    /\ gen = Off
    /\ callers = Off
    /\ alloc = Off
    /\ post = Off
    /\ hr = Off
    /\ opc = Off
    /\ sched = Off
    /\ mq = Off

unitsButGen == <<logic, stable, fieldbus, e2e, payload, store, stamps, tdc, callers, alloc, post, hr, opc, sched, mq>>
restOfGen == <<writerVars, engineVars, unitsButGen>>
RestIdleGen ==
    /\ WriterOff
    /\ EngineIdle
    /\ logic = Off
    /\ stable = Off
    /\ fieldbus = Off
    /\ e2e = Off
    /\ payload = Off
    /\ store = Off
    /\ stamps = Off
    /\ tdc = Off
    /\ callers = Off
    /\ alloc = Off
    /\ post = Off
    /\ hr = Off
    /\ opc = Off
    /\ sched = Off
    /\ mq = Off

unitsButCallers == <<logic, stable, fieldbus, e2e, payload, store, stamps, tdc, gen, alloc, post, hr, opc, sched, mq>>
restOfCallers == <<writerVars, engineVars, unitsButCallers>>
RestIdleCallers ==
    /\ WriterOff
    /\ EngineIdle
    /\ logic = Off
    /\ stable = Off
    /\ fieldbus = Off
    /\ e2e = Off
    /\ payload = Off
    /\ store = Off
    /\ stamps = Off
    /\ tdc = Off
    /\ gen = Off
    /\ alloc = Off
    /\ post = Off
    /\ hr = Off
    /\ opc = Off
    /\ sched = Off
    /\ mq = Off

unitsButAlloc == <<logic, stable, fieldbus, e2e, payload, store, stamps, tdc, gen, callers, post, hr, opc, sched, mq>>
restOfAlloc == <<writerVars, engineVars, unitsButAlloc>>
RestIdleAlloc ==
    /\ WriterOff
    /\ EngineIdle
    /\ logic = Off
    /\ stable = Off
    /\ fieldbus = Off
    /\ e2e = Off
    /\ payload = Off
    /\ store = Off
    /\ stamps = Off
    /\ tdc = Off
    /\ gen = Off
    /\ callers = Off
    /\ post = Off
    /\ hr = Off
    /\ opc = Off
    /\ sched = Off
    /\ mq = Off

unitsButPost == <<logic, stable, fieldbus, e2e, payload, store, stamps, tdc, gen, callers, alloc, hr, opc, sched, mq>>
restOfPost == <<writerVars, engineVars, unitsButPost>>
RestIdlePost ==
    /\ WriterOff
    /\ EngineIdle
    /\ logic = Off
    /\ stable = Off
    /\ fieldbus = Off
    /\ e2e = Off
    /\ payload = Off
    /\ store = Off
    /\ stamps = Off
    /\ tdc = Off
    /\ gen = Off
    /\ callers = Off
    /\ alloc = Off
    /\ hr = Off
    /\ opc = Off
    /\ sched = Off
    /\ mq = Off

unitsButHr == <<logic, stable, fieldbus, e2e, payload, store, stamps, tdc, gen, callers, alloc, post, opc, sched, mq>>
restOfHr == <<writerVars, engineVars, unitsButHr>>
RestIdleHr ==
    /\ WriterOff
    /\ EngineIdle
    /\ logic = Off
    /\ stable = Off
    /\ fieldbus = Off
    /\ e2e = Off
    /\ payload = Off
    /\ store = Off
    /\ stamps = Off
    /\ tdc = Off
    /\ gen = Off
    /\ callers = Off
    /\ alloc = Off
    /\ post = Off
    /\ opc = Off
    /\ sched = Off
    /\ mq = Off

unitsButOpc == <<logic, stable, fieldbus, e2e, payload, store, stamps, tdc, gen, callers, alloc, post, hr, sched, mq>>
restOfOpc == <<writerVars, engineVars, unitsButOpc>>
RestIdleOpc ==
    /\ WriterOff
    /\ EngineIdle
    /\ logic = Off
    /\ stable = Off
    /\ fieldbus = Off
    /\ e2e = Off
    /\ payload = Off
    /\ store = Off
    /\ stamps = Off
    /\ tdc = Off
    /\ gen = Off
    /\ callers = Off
    /\ alloc = Off
    /\ post = Off
    /\ hr = Off
    /\ sched = Off
    /\ mq = Off

unitsButSched == <<logic, stable, fieldbus, e2e, payload, store, stamps, tdc, gen, callers, alloc, post, hr, opc, mq>>
restOfSched == <<writerVars, engineVars, unitsButSched>>
RestIdleSched ==
    /\ WriterOff
    /\ EngineIdle
    /\ logic = Off
    /\ stable = Off
    /\ fieldbus = Off
    /\ e2e = Off
    /\ payload = Off
    /\ store = Off
    /\ stamps = Off
    /\ tdc = Off
    /\ gen = Off
    /\ callers = Off
    /\ alloc = Off
    /\ post = Off
    /\ hr = Off
    /\ opc = Off
    /\ mq = Off

unitsButMq == <<logic, stable, fieldbus, e2e, payload, store, stamps, tdc, gen, callers, alloc, post, hr, opc, sched>>
restOfMq == <<writerVars, engineVars, unitsButMq>>
RestIdleMq ==
    /\ WriterOff
    /\ EngineIdle
    /\ logic = Off
    /\ stable = Off
    /\ fieldbus = Off
    /\ e2e = Off
    /\ payload = Off
    /\ store = Off
    /\ stamps = Off
    /\ tdc = Off
    /\ gen = Off
    /\ callers = Off
    /\ alloc = Off
    /\ post = Off
    /\ hr = Off
    /\ opc = Off
    /\ sched = Off

\* END unit variables

\* DataWriter.__init__ and the sinks' __new__/__init__, for every sink
\* configuration; the registry holds running devices only.
InitWriter ==
    /\ WriterIdle
    /\ registry = [d \in DeviceIds |-> "running"]
    /\ td \in [enabled : BOOLEAN, conn : {FALSE}]
    /\ mqtt_connected \in BOOLEAN
    /\ modbus \in [running : BOOLEAN, device_mappings : {<<>>}, registers : {<<>>}]
    /\ opcua_running \in BOOLEAN
    /\ EngineIdle
    /\ UnitIdle

\* The same, with every sink disabled and any registry content.
InitCache ==
    /\ WriterIdle
    /\ registry \in [DeviceIds -> {"running", "stopped"}]
    /\ td = [enabled |-> FALSE, conn |-> FALSE]
    /\ mqtt_connected = FALSE
    /\ modbus = [running |-> FALSE, device_mappings |-> <<>>, registers |-> <<>>]
    /\ opcua_running = FALSE
    /\ EngineIdle
    /\ UnitIdle

\* DataWriter.start
Start ==
    /\ cpc = "idle"
    /\ IF ~running
       THEN /\ running' = TRUE
            /\ wpc' = "while"
            /\ ret' = [op |-> "start", val |-> TRUE]
       ELSE /\ ret' = [op |-> "start", val |-> FALSE]
            /\ UNCHANGED <<running, wpc>>
    /\ UNCHANGED <<cpc, now, current_time, last_cache_update, device_cache,
                   registry, widx, tdengine_connected, data, tickLog, tickFail,
                   stopMidTick, td, mqtt_connected, modbus, opcua_running>>
    /\ UNCHANGED <<engineVars, unitVars>>

\* DataWriter.stop, up to thread.join()
StopBegin ==
    /\ cpc = "idle"
    /\ IF running
       THEN /\ running' = FALSE
            /\ cpc' = "join"
            /\ stopMidTick' = IF InTick THEN device_cache[widx] ELSE 0
            /\ UNCHANGED ret
       ELSE /\ ret' = [op |-> "stop", val |-> FALSE]
            /\ UNCHANGED <<running, cpc, stopMidTick>>
    /\ UNCHANGED <<wpc, now, current_time, last_cache_update, device_cache,
                   registry, widx, tdengine_connected, data, tickLog, tickFail,
                   td, mqtt_connected, modbus, opcua_running>>
    /\ UNCHANGED <<engineVars, unitVars>>

\* Variant of JoinReturns: stop() does not wait for the worker.
JoinReturnsNoWait == wpc \in {"none", "exited", "while", "time", "fetch", "dispatch",
                              "gen", "td", "mqtt", "modbus", "opcua", "sleep"}

\* thread.join() returns once the worker has left _write_data_loop
JoinReturns == wpc \in {"none", "exited"}

\* DataWriter.stop, thread.join() and return True
StopJoin ==
    /\ cpc = "join"
    /\ JoinReturns
    /\ cpc' = "idle"
    /\ ret' = [op |-> "stop", val |-> TRUE]
    /\ UNCHANGED <<running, wpc, now, current_time, last_cache_update,
                   device_cache, registry, widx, tdengine_connected, data,
                   tickLog, tickFail, stopMidTick, td, mqtt_connected, modbus,
                   opcua_running>>
    /\ UNCHANGED <<engineVars, unitVars>>

\* _write_data_loop line 49: while self.running
WhileTest ==
    /\ wpc = "while"
    /\ IF running
       THEN /\ wpc' = "time"
            /\ tickLog' = EmptyLog
            /\ tickFail' = "none"
            /\ stopMidTick' = 0
       ELSE /\ wpc' = "exited"
            /\ UNCHANGED <<tickLog, tickFail, stopMidTick>>
    /\ UNCHANGED <<running, cpc, ret, now, current_time, last_cache_update,
                   device_cache, registry, widx, tdengine_connected, data,
                   td, mqtt_connected, modbus, opcua_running>>
    /\ UNCHANGED <<engineVars, unitVars>>

\* Variant of CacheExpired: refresh as soon as the TTL is reached.
CacheExpiredEarly(t, last) == t - last >= CacheTtl

\* line 54: current_time - self._last_cache_update > self._cache_ttl
CacheExpired(t, last) == t - last > CacheTtl

\* _write_data_loop lines 53-54: read the clock, decide whether to refresh
ReadTime ==
    /\ wpc = "time"
    /\ current_time' = now
    /\ wpc' = IF CacheExpired(now, last_cache_update) THEN "fetch" ELSE "dispatch"
    /\ UNCHANGED <<running, cpc, ret, now, last_cache_update, device_cache,
                   registry, widx, tdengine_connected, data, tickLog, tickFail,
                   stopMidTick, td, mqtt_connected, modbus, opcua_running>>
    /\ UNCHANGED <<engineVars, unitVars>>

\* lines 57-59: the registry answers; cache and refresh time are replaced
FetchOk ==
    /\ wpc = "fetch"
    /\ device_cache' = RunningOf(registry, 1)
    /\ last_cache_update' = current_time
    /\ wpc' = "dispatch"
    /\ UNCHANGED <<running, cpc, ret, now, current_time, registry, widx,
                   tdengine_connected, data, tickLog, tickFail, stopMidTick,
                   td, mqtt_connected, modbus, opcua_running>>
    /\ UNCHANGED <<engineVars, unitVars>>

\* lines 60-61: get_all_devices raises; the old cache is kept
FetchFail ==
    /\ wpc = "fetch"
    /\ tickFail' = "registry"
    /\ wpc' = "dispatch"
    /\ UNCHANGED <<running, cpc, ret, now, current_time, last_cache_update,
                   device_cache, registry, widx, tdengine_connected, data,
                   tickLog, stopMidTick, td, mqtt_connected, modbus,
                   opcua_running>>
    /\ UNCHANGED <<engineVars, unitVars>>

\* lines 63-67 and process_devices lines 84-90: empty cache sleeps, else the
\* tick starts with the TDengine connection check (connect() may fail)
Dispatch ==
    /\ wpc = "dispatch"
    /\ IF device_cache = <<>>
       THEN /\ wpc' = "sleep"
            /\ UNCHANGED <<widx, tdengine_connected, td>>
       ELSE /\ wpc' = "gen"
            /\ widx' = 1
            /\ IF ~td.enabled
               THEN tdengine_connected' = FALSE /\ UNCHANGED td
               ELSE IF td.conn
               THEN tdengine_connected' = TRUE /\ UNCHANGED td
               ELSE \E ok \in BOOLEAN :
                       /\ td' = [td EXCEPT !.conn = ok]
                       /\ tdengine_connected' = ok
    /\ UNCHANGED <<running, cpc, ret, now, current_time, last_cache_update,
                   device_cache, registry, data, tickLog, tickFail,
                   stopMidTick, mqtt_connected, modbus, opcua_running>>
    /\ UNCHANGED <<engineVars, unitVars>>

\* Variant of LeaveTick: returning from process_devices ends the worker loop.
LeaveTickExits == /\ wpc' = "exited"
                  /\ widx' = 0
                  /\ data' = NoData

\* process_devices is left: by the handler of line 145 or by the end of the
\* device list; the loop then sleeps (lines 70-72)
LeaveTick == /\ wpc' = "sleep"
             /\ widx' = 0
             /\ data' = NoData

\* lines 94-99: the call of DataGenerator.generate_device_data returns a
\* sample; its value may be a non-finite float
GenOk ==
    /\ wpc = "gen"
    /\ \E v \in SampleValues : data' = v
    /\ tickLog' = [tickLog EXCEPT ![device_cache[widx]].gen = "ok"]
    /\ wpc' = "td"
    /\ UNCHANGED <<running, cpc, ret, now, current_time, last_cache_update,
                   device_cache, registry, widx, tdengine_connected, tickFail,
                   stopMidTick, td, mqtt_connected, modbus, opcua_running>>
    /\ UNCHANGED <<engineVars, unitVars>>

\* lines 94-99: the call of generate_device_data raises (an unsupported mode,
\* a zero period, or the TypeError of a call whose arguments do not match
\* the definition of data_generator.py line 180); the only handler is
\* line 145, outside the for loop
GenRaise ==
    /\ wpc = "gen"
    /\ tickLog' = [tickLog EXCEPT ![device_cache[widx]].gen = "raise"]
    /\ tickFail' = "gen"
    /\ LeaveTick
    /\ UNCHANGED <<running, cpc, ret, now, current_time, last_cache_update,
                   device_cache, registry, tdengine_connected, stopMidTick,
                   td, mqtt_connected, modbus, opcua_running>>
    /\ UNCHANGED <<engineVars, unitVars>>

\* Record that a sink was handed the sample of the device in progress.
Handed(log, d, s) == [log EXCEPT ![d].sinks = @ \cup {s}]

\* lines 102-134: TDengine insert inside its own try/except
TdWrite ==
    /\ wpc = "td"
    /\ IF tdengine_connected
       THEN /\ tickLog' = Handed(tickLog, device_cache[widx], "td")
            /\ \E ok \in BOOLEAN :
                  tickFail' = IF ok THEN tickFail ELSE "td"
       ELSE UNCHANGED <<tickLog, tickFail>>
    /\ wpc' = "mqtt"
    /\ UNCHANGED <<running, cpc, ret, now, current_time, last_cache_update,
                   device_cache, registry, widx, tdengine_connected, data,
                   stopMidTick, td, mqtt_connected, modbus, opcua_running>>
    /\ UNCHANGED <<engineVars, unitVars>>

\* line 137, MQTTService.publish: returns when not connected, else publishes
\* inside try/except
MqttPublish ==
    /\ wpc = "mqtt"
    /\ IF mqtt_connected
       THEN /\ tickLog' = Handed(tickLog, device_cache[widx], "mqtt")
            /\ \E ok \in BOOLEAN :
                  tickFail' = IF ok THEN tickFail ELSE "mqtt"
       ELSE UNCHANGED <<tickLog, tickFail>>
    /\ wpc' = "modbus"
    /\ UNCHANGED <<running, cpc, ret, now, current_time, last_cache_update,
                   device_cache, registry, widx, tdengine_connected, data,
                   stopMidTick, td, mqtt_connected, modbus, opcua_running>>
    /\ UNCHANGED <<engineVars, unitVars>>

\* ModbusService.update lines 107-111: first encounter allocates a block
AllocateAtBase(mappings, d) ==
    IF d \in DOMAIN mappings THEN mappings
    ELSE mappings @@ (d :> RegisterBase)
Allocate(mappings, d) ==
    IF d \in DOMAIN mappings THEN mappings
    ELSE mappings @@ (d :> RegisterBase + Cardinality(DOMAIN mappings) * RegisterBlock)

\* ModbusService.update line 131: int(val) & 0xFFFF
ToRegister(v) == v.n % WordMod

\* ModbusService.update line 140: setValues(3, start_register, values)
SetValues(regs, start, value) ==
    [a \in DOMAIN regs \cup {start} |-> IF a = start THEN value ELSE regs[a]]

\* The handler that guards the register conversion: ModbusService.update has
\* none, and process_devices only has the one around the whole loop.
ModbusRaises(v) == ~v.finite

\* line 140, ModbusService.update: int() of a non-finite float raises
\* (OverflowError / ValueError) and leaves process_devices through line 145
ModbusUpdate ==
    /\ wpc = "modbus"
    /\ IF ~modbus.running
       THEN /\ wpc' = "opcua"
            /\ UNCHANGED <<modbus, tickLog, tickFail, widx, data>>
       ELSE LET d == device_cache[widx]
                m == Allocate(modbus.device_mappings, d)
            IN  /\ tickLog' = Handed(tickLog, d, "modbus")
                /\ IF ModbusRaises(data)
                   THEN /\ modbus' = [modbus EXCEPT !.device_mappings = m]
                        /\ tickFail' = "modbus"
                        /\ LeaveTick
                   ELSE /\ modbus' = [modbus EXCEPT
                               !.device_mappings = m,
                               !.registers = SetValues(@, m[d], ToRegister(data))]
                        /\ wpc' = "opcua"
                        /\ UNCHANGED <<tickFail, widx, data>>
    /\ UNCHANGED <<running, cpc, ret, now, current_time, last_cache_update,
                   device_cache, registry, tdengine_connected, stopMidTick,
                   td, mqtt_connected, opcua_running>>
    /\ UNCHANGED <<engineVars, unitVars>>

\* line 143, OPCUAService.update: hands the update to the sink's event loop;
\* then the for loop takes the next device or process_devices returns
OpcuaUpdate ==
    /\ wpc = "opcua"
    /\ tickLog' = IF opcua_running
                  THEN Handed(tickLog, device_cache[widx], "opcua")
                  ELSE tickLog
    /\ IF widx < Len(device_cache)
       THEN /\ widx' = widx + 1
            /\ wpc' = "gen"
            /\ data' = NoData
       ELSE LeaveTick
    /\ UNCHANGED <<running, cpc, ret, now, current_time, last_cache_update,
                   device_cache, registry, tdengine_connected, tickFail,
                   stopMidTick, td, mqtt_connected, modbus, opcua_running>>
    /\ UNCHANGED <<engineVars, unitVars>>

\* lines 64, 72, 76: time.sleep returns and the loop tests the flag again
Sleep ==
    /\ wpc = "sleep"
    /\ wpc' = "while"
    /\ UNCHANGED <<running, cpc, ret, now, current_time, last_cache_update,
                   device_cache, registry, widx, tdengine_connected, data,
                   tickLog, tickFail, stopMidTick, td, mqtt_connected, modbus,
                   opcua_running>>
    /\ UNCHANGED <<engineVars, unitVars>>

\* The wall clock advances.
ClockTick ==
    /\ now < MaxTime
    /\ now' = now + 1
    /\ UNCHANGED <<running, wpc, cpc, ret, current_time, last_cache_update,
                   device_cache, registry, widx, tdengine_connected, data,
                   tickLog, tickFail, stopMidTick, td, mqtt_connected, modbus,
                   opcua_running>>
    /\ UNCHANGED <<engineVars, unitVars>>

\* DeviceService.update_device_status: a device is set running or stopped
SetStatus ==
    /\ \E d \in DeviceIds, s \in {"running", "stopped"} :
          /\ registry[d] # s
          /\ registry' = [registry EXCEPT ![d] = s]
    /\ UNCHANGED <<running, wpc, cpc, ret, now, current_time,
                   last_cache_update, device_cache, widx, tdengine_connected,
                   data, tickLog, tickFail, stopMidTick, td, mqtt_connected,
                   modbus, opcua_running>>
    /\ UNCHANGED <<engineVars, unitVars>>

Worker ==
    \/ WhileTest \/ ReadTime \/ FetchOk \/ FetchFail \/ Dispatch
    \/ GenOk \/ GenRaise \/ TdWrite \/ MqttPublish \/ ModbusUpdate
    \/ OpcuaUpdate \/ Sleep

\* The scheduler and its sinks over one registry content.
NextWriter ==
    \/ Start \/ StopBegin \/ StopJoin
    \/ WhileTest \/ ReadTime \/ FetchOk \/ FetchFail \/ Dispatch
    \/ GenOk \/ GenRaise \/ TdWrite \/ MqttPublish \/ ModbusUpdate
    \/ OpcuaUpdate \/ Sleep

Spec == InitWriter /\ [][NextWriter]_vars

\* The scheduler while the clock advances and the registry changes.
NextCache ==
    \/ Start \/ StopBegin \/ StopJoin
    \/ WhileTest \/ ReadTime \/ FetchOk \/ FetchFail \/ Dispatch
    \/ GenOk \/ GenRaise \/ TdWrite \/ MqttPublish \/ ModbusUpdate
    \/ OpcuaUpdate \/ Sleep
    \/ ClockTick \/ SetStatus

SpecCache == InitCache /\ [][NextCache]_vars

\* The scheduler under the thread scheduler's fairness: a worker that can
\* take a step eventually takes one.
SpecFair == InitWriter /\ [][NextWriter]_vars /\ WF_vars(Worker)

\* =====================================================================
\* Claims about the scheduler
\* =====================================================================
TickDevices == {device_cache[i] : i \in 1..Len(device_cache)}
StopTrue == [op |-> "stop", val |-> TRUE]

\* C1: when generation or dispatch raises for one device of a tick, every
\* other device of the list is still generated in that tick.  (Fails: the
\* only handler is outside the for loop.)
C1_OtherDevicesProcessed ==
    (wpc = "sleep" /\ tickFail \in {"gen", "modbus"})
        => \A d \in TickDevices : tickLog[d].gen # "none"

\* C2: once a device's sample was generated, every enabled sink is handed
\* that sample in the tick, whatever the other sinks did.  (Fails: a raising
\* register update skips the node-graph sink.)
C2_EverySinkHanded ==
    wpc = "sleep"
        => \A d \in TickDevices :
              tickLog[d].gen = "ok" => EnabledSinks \subseteq tickLog[d].sinks

\* C3: the worker leaves the polling loop only at the while test and only
\* with the running flag cleared, the flag is cleared only by stop(), and
\* after a failure of the registry, of generation or of a sink the worker
\* comes back to the while test.
C3_LoopSurvivesFailures ==
    /\ [][ /\ (wpc' = "exited" /\ wpc # "exited") => (wpc = "while" /\ ~running)
           /\ (running /\ ~running') => cpc' = "join" ]_vars
    /\ ((tickFail # "none" /\ wpc \notin {"none", "exited"}) ~> (wpc = "while"))

\* a failed iteration is over and the flag is still set: the loop goes on
C3_Witness == wpc = "while" /\ running /\ tickFail \in {"registry", "gen", "modbus"}

\* C4: from the return of stop() = True until the next start(), the worker
\* has left the loop: it generates no sample and calls no sink.
C4_StopWaitsForWorker ==
    [][ (ret = StopTrue /\ ret' = StopTrue)
          => /\ wpc \in {"none", "exited"}
             /\ UNCHANGED <<wpc, tickLog, data, modbus, td>> ]_vars

\* stop() returned True after a tick that generated a sample
C4_Witness ==
    /\ ret = StopTrue
    /\ wpc = "exited"
    /\ \E d \in DeviceIds : tickLog[d].gen = "ok"

\* C5: the device in progress when stop() cleared the flag has been handed
\* to every enabled sink when the worker leaves the loop.  (Fails with C1
\* and C2: a raise in the tick skips the remaining sinks.)
C5_DeviceInProgressDispatched ==
    (wpc = "exited" /\ stopMidTick # 0)
        => EnabledSinks \subseteq tickLog[stopMidTick].sinks

\* C6: the registry is queried only when more than the TTL has passed since
\* the last successful refresh, successful refreshes are more than the TTL
\* apart, and between them the cache that the ticks use does not change.
C6_RefreshOnlyAfterTtl ==
    [][ /\ wpc' = "fetch" => current_time' - last_cache_update' > CacheTtl
        /\ last_cache_update' # last_cache_update
              => (wpc = "fetch" /\ last_cache_update' - last_cache_update > CacheTtl)
        /\ device_cache' # device_cache
              => (wpc = "fetch" /\ last_cache_update' # last_cache_update) ]_vars

\* a tick runs on the cache, inside the TTL, while the registry has changed
C6_Witness ==
    /\ wpc = "gen"
    /\ last_cache_update > 0
    /\ now > last_cache_update
    /\ now - last_cache_update <= CacheTtl
    /\ RunningOf(registry, 1) # device_cache

\* =====================================================================
\* Generation strategies
\* =====================================================================

\* Parameter bounds of the model, as accepted by Parameter.validate_max_value
BoundValues == {None, Some(0), Some(100), Some(200)}
DefaultValues == {None, Some(0), Some(50), Some(-100), Some(300)}
ValidBounds(lo, hi) == (lo # None /\ hi # None) => Val(hi) >= Val(lo)

\* python: a or b, for optional numbers (None and 0 are falsy)
Or(a, b) == IF a # None /\ Val(a) # 0 THEN a ELSE b

\* random.uniform(-r, r), on the grid {-r, -r/2, 0, r/2, r}
UniformGrid(r) == {-Abs(r), -(Abs(r) \div 2), 0, Abs(r) \div 2, Abs(r)}

\* Variant of Clamp: the upper bound is applied before the lower one is
\* known to hold, and the lower clamp is lost.
ClampUpperOnly(v, lo, hi) == IF hi # None THEN Min(Val(hi), v) ELSE v

\* RandomWalkStrategy.generate lines 78-81: max(min, v) then min(max, v)
Clamp(v, lo, hi) ==
    LET a == IF lo # None THEN Max(Val(lo), v) ELSE v
    IN  IF hi # None THEN Min(Val(hi), a) ELSE a

\* RandomWalkStrategy.generate lines 66-67: first value of current_value
WalkStart(p) ==
    IF p.default_value # None THEN Val(p.default_value)
    ELSE Val(Or(p.min_value, Some(0)))

\* DataGenerator._generate_random_walk lines 39-40
LegacyWalkStart(p) == Val(Or(Or(p.default_value, p.min_value), Some(0)))

\* RandomWalkStrategy.generate lines 69-73: step_range or its default
WalkStepRange(p) ==
    IF p.step_range # None THEN Val(p.step_range)
    ELSE LET min_val == IF p.min_value # None THEN Val(p.min_value) ELSE 0
             max_val == IF p.max_value # None THEN Val(p.max_value) ELSE 100 * Scale
         IN  IF max_val # min_val THEN (max_val - min_val) \div StepFraction ELSE Scale

\* DataGenerator._generate_random_walk lines 43-48
LegacyWalkStepRange(p) ==
    IF p.step_range # None THEN Val(p.step_range)
    ELSE IF p.max_value # None /\ p.min_value # None
         THEN (Val(p.max_value) - Val(p.min_value)) \div StepFraction
         ELSE Scale

InitWalk ==
    /\ WriterOff
    /\ UnitIdle
    /\ lin = IdleLin
    /\ err = IdleErr
    /\ \E lo \in BoundValues, hi \in BoundValues, dv \in DefaultValues,
          sr \in {None, Some(70)}, impl \in {"engine", "legacy"} :
          /\ ValidBounds(lo, hi)
          /\ rw = [on |-> TRUE, impl |-> impl, min_value |-> lo, max_value |-> hi,
                   default_value |-> dv, step_range |-> sr,
                   current_value |-> None, value |-> None]

\* one call of the strategy: start value, step range, draw, clamp, store
WalkCall(start, range) ==
    \E change \in UniformGrid(range) :
       LET cur == IF rw.current_value = None THEN start ELSE Val(rw.current_value)
           new_value == Clamp(cur + change, rw.min_value, rw.max_value)
       IN  /\ Abs(new_value) <= ValueCap
           /\ rw' = [rw EXCEPT !.current_value = Some(new_value),
                               !.value = Some(new_value)]

\* RandomWalkStrategy.generate
RandomWalkGenerate ==
    /\ rw.on /\ rw.impl = "engine"
    /\ WalkCall(WalkStart(rw), WalkStepRange(rw))
    /\ UNCHANGED <<lin, err>>
    /\ UNCHANGED <<writerVars, unitVars>>

\* DataGenerator._generate_random_walk
LegacyRandomWalk ==
    /\ rw.on /\ rw.impl = "legacy"
    /\ WalkCall(LegacyWalkStart(rw), LegacyWalkStepRange(rw))
    /\ UNCHANGED <<lin, err>>
    /\ UNCHANGED <<writerVars, unitVars>>

NextWalk == RandomWalkGenerate \/ LegacyRandomWalk

SpecWalk == InitWalk /\ [][NextWalk]_vars

\* C7: with both bounds set, every value a RANDOM_WALK call returns lies in
\* [min, max], whatever the default value, and is the stored current_value.
C7_WalkStaysInBounds ==
    (rw.on /\ rw.min_value # None /\ rw.max_value # None /\ rw.value # None)
        => /\ Val(rw.min_value) <= Val(rw.value)
           /\ Val(rw.value) <= Val(rw.max_value)
           /\ rw.current_value = rw.value

\* a walk that started from a default below min has been clamped to min
C7_Witness ==
    /\ rw.on /\ rw.min_value = Some(0) /\ rw.max_value = Some(100)
    /\ rw.default_value = Some(-100)
    /\ rw.value = Some(0)

\* ---------------------------------------------------------------------
\* LINEAR
\* ---------------------------------------------------------------------
StepValues == {None, Some(30), Some(50), Some(-50), Some(250)}

\* LinearStrategy.generate lines 31-32: first value of current_value
LinearStart(p) ==
    IF p.default_value # None THEN Val(p.default_value)
    ELSE Val(Or(p.min_value, Some(0)))

\* DataGenerator._generate_linear lines 118-119
LegacyLinearStart(p) == Val(Or(Or(p.default_value, p.min_value), Some(0)))

\* Variant of OutOfBounds: the bounce already happens on the bound itself.
OutOfBoundsInclusive(v, lo, hi) ==
    lo # None /\ hi # None /\ (v >= Val(hi) \/ v <= Val(lo))

\* LinearStrategy.generate lines 40-41: both bounds set and the new value
\* beyond one of them
OutOfBounds(v, lo, hi) ==
    lo # None /\ hi # None /\ (v > Val(hi) \/ v < Val(lo))

\* params.get("step", 1)
StepOf(p) == IF p.step # None THEN Val(p.step) ELSE Scale

InitLinear ==
    /\ WriterOff
    /\ UnitIdle
    /\ rw = IdleRw
    /\ err = IdleErr
    /\ \E lo \in BoundValues, hi \in BoundValues, dv \in DefaultValues,
          st \in StepValues, impl \in {"engine", "legacy"} :
          /\ ValidBounds(lo, hi)
          /\ lin = [on |-> TRUE, impl |-> impl, min_value |-> lo, max_value |-> hi,
                    default_value |-> dv, step0 |-> st, step |-> st,
                    current_value |-> None, value |-> None]

\* one call of the strategy: advance by step; beyond a bound, flip the
\* stored step and advance from the old value by the flipped step
LinearCall(start) ==
    LET cur == IF lin.current_value = None THEN start ELSE Val(lin.current_value)
        step == StepOf(lin)
        bounce == OutOfBounds(cur + step, lin.min_value, lin.max_value)
        new_value == IF bounce THEN cur + (-step) ELSE cur + step
    IN  /\ Abs(new_value) <= ValueCap
        /\ lin' = [lin EXCEPT !.step = IF bounce THEN Some(-step) ELSE @,
                              !.current_value = Some(new_value),
                              !.value = Some(new_value)]

\* LinearStrategy.generate
LinearGenerate ==
    /\ lin.on /\ lin.impl = "engine"
    /\ LinearCall(LinearStart(lin))
    /\ UNCHANGED <<rw, err>>
    /\ UNCHANGED <<writerVars, unitVars>>

\* DataGenerator._generate_linear
LegacyLinear ==
    /\ lin.on /\ lin.impl = "legacy"
    /\ LinearCall(LegacyLinearStart(lin))
    /\ UNCHANGED <<rw, err>>
    /\ UNCHANGED <<writerVars, unitVars>>

NextLinear == LinearGenerate \/ LegacyLinear

\* The scheduler calls the strategy of a running device every tick.
SpecLinear ==
    /\ InitLinear /\ [][NextLinear]_vars
    /\ WF_vars(LinearGenerate) /\ WF_vars(LegacyLinear)

\* both bounds set, the first call starts from min, the configured step is
\* positive
LinearFromMin ==
    /\ lin.on /\ lin.min_value # None /\ lin.max_value # None
    /\ (IF lin.impl = "engine" THEN LinearStart(lin) ELSE LegacyLinearStart(lin))
           = Val(lin.min_value)
    /\ (IF lin.step0 # None THEN Val(lin.step0) ELSE Scale) > 0
LinearStep0 == IF lin.step0 # None THEN Val(lin.step0) ELSE Scale
LinearSpan == Val(lin.max_value) - Val(lin.min_value)

\* C8 as stated: started at min with a positive step, the sequence reaches
\* max, and the value after max is below max.  (Fails when the step does not
\* divide max - min: the bounce happens before max is reached.)
C8_ReachesMaxThenBounces ==
    /\ (LinearFromMin /\ lin.value = None) ~> (lin.value = lin.max_value)
    /\ [][ (LinearFromMin /\ lin.value = lin.max_value /\ lin' # lin)
              => Val(lin'.value) < Val(lin.max_value) ]_vars

\* C8 amended: when min < max and the step divides max - min, the sequence
\* reaches max, and the value after max is max - step with the stored step
\* flipped.
C8_ReachesMaxWhenStepDivides ==
    /\ (LinearFromMin /\ LinearSpan > 0 /\ LinearSpan % LinearStep0 = 0
          /\ lin.value = None) ~> (lin.value = lin.max_value)
    /\ [][ (LinearFromMin /\ LinearSpan > 0 /\ LinearSpan % LinearStep0 = 0
              /\ lin.value = lin.max_value /\ lin' # lin)
              => /\ Val(lin'.value) = Val(lin.max_value) - LinearStep0
                 /\ Val(lin'.value) < Val(lin.max_value)
                 /\ lin'.step = Some(-LinearStep0) ]_vars

\* the bounce at max has just happened
C8_Witness ==
    /\ LinearFromMin /\ LinearSpan > 0 /\ LinearSpan % LinearStep0 = 0
    /\ lin.value = Some(Val(lin.max_value) - LinearStep0)
    /\ lin.step = Some(-LinearStep0)

\* =====================================================================
\* Error injector
\* =====================================================================
\* A python value: None, a number, a bool (n is 0 or 1) or a string.
NullValue == [kind |-> "null", n |-> 0]
Num(n) == [kind |-> "num", n |-> n]
InputValues == {NullValue, Num(10), Num(-4), [kind |-> "bool", n |-> 1],
                [kind |-> "str", n |-> 0]}

\* isinstance(value, (int, float)): bool is a subclass of int
IsNumber(v) == v.kind \in {"num", "bool"}

\* probabilities and draws of random.random(), in units of 1/Scale
Probabilities == {0, 50, Scale}
RandomDraws == {0, 50, Scale - 1}

ErrConfig(mcar, rate, interval, anomaly, noise) ==
    [mcar_probability |-> mcar, drift_rate |-> rate,
     drift_reset_interval |-> interval, anomaly_probability |-> anomaly,
     noise_std_dev |-> noise]

\* error_config dictionaries of the model: a key is absent (None) or set
ErrConfigs ==
    {ErrConfig(m, r, i, None, None) :
        m \in {None} \cup {Some(p) : p \in Probabilities},
        r \in {Some(3), Some(-2)}, i \in {None, Some(0), Some(2)}}
    \cup
    {ErrConfig(m, r, None, a, n) :
        m \in {None, Some(0), Some(Scale)}, r \in {None, Some(3)},
        a \in {None, Some(Scale)}, n \in {None, Some(0), Some(4)}}

NoCall == [value |-> [kind |-> "none", n |-> 0], dropped |-> FALSE,
           elapsed |-> None, result |-> NullValue]

InitError ==
    /\ WriterOff
    /\ UnitIdle
    /\ rw = IdleRw
    /\ lin = IdleLin
    /\ \E cfg \in ErrConfigs :
          err = [on |-> TRUE, cfg |-> cfg, drift_accumulated |-> None,
                 drift_start_time |-> None, clock |-> 0, last |-> NoCall]

\* Variant of McarTriggers: the draw is compared with <=.
McarTriggersInclusive(u, p) == u <= p

\* line 98: random.random() < error_config["mcar_probability"]
McarTriggers(u, p) == u < p

\* Variant of WindowExpired: the window already ends when the interval is
\* reached.
WindowExpiredInclusive(elapsed, interval) == elapsed >= interval

\* line 116: time.time() - context["drift_start_time"] > drift_reset_interval
WindowExpired(elapsed, interval) == elapsed > interval

\* time.time(): a reading not before the previous one
ClockReadings(t) == {u \in {t, t + 1} : u <= MaxErrTime}

\* lines 123-126: anomaly spike, value *= anomaly_multiplier (default 1.5)
Anomaly(v, cfg, u) ==
    IF cfg.anomaly_probability # None /\ u < Val(cfg.anomaly_probability)
    THEN Num((v.n * 150) \div 100)
    ELSE v

\* lines 129-133: gaussian noise when noise_std_dev > 0
Noise(v, cfg, g) ==
    IF cfg.noise_std_dev # None /\ Val(cfg.noise_std_dev) > 0
    THEN Num(v.n + g * Val(cfg.noise_std_dev))
    ELSE v

\* ErrorInjector.apply, None input (lines 93-94)
ApplyNull ==
    /\ err.on
    /\ err' = [err EXCEPT !.last = [NoCall EXCEPT !.value = NullValue]]
    /\ UNCHANGED <<rw, lin>>
    /\ UNCHANGED <<writerVars, unitVars>>

\* ErrorInjector.apply, MCAR drops the value (lines 97-99)
ApplyDropped ==
    /\ err.on
    /\ \E value \in InputValues \ {NullValue}, u \in RandomDraws :
          /\ err.cfg.mcar_probability # None
          /\ McarTriggers(u, Val(err.cfg.mcar_probability))
          /\ err' = [err EXCEPT !.last = [value |-> value, dropped |-> TRUE,
                                          elapsed |-> None, result |-> NullValue]]
    /\ UNCHANGED <<rw, lin>>
    /\ UNCHANGED <<writerVars, unitVars>>

\* ErrorInjector.apply, a value that is not a number passes (line 135)
ApplyOther ==
    /\ err.on
    /\ \E value \in InputValues \ {NullValue}, u \in RandomDraws :
          /\ ~IsNumber(value)
          /\ ~(err.cfg.mcar_probability # None
               /\ McarTriggers(u, Val(err.cfg.mcar_probability)))
          /\ err' = [err EXCEPT !.last = [value |-> value, dropped |-> FALSE,
                                          elapsed |-> None, result |-> value]]
    /\ UNCHANGED <<rw, lin>>
    /\ UNCHANGED <<writerVars, unitVars>>

\* ErrorInjector.apply, a number: drift, anomaly, noise (lines 102-135)
ApplyNumber ==
    /\ err.on
    /\ \E value \in InputValues \ {NullValue}, u \in RandomDraws,
          ua \in RandomDraws, g \in {-1, 0, 1} :
          /\ IsNumber(value)
          /\ ~(err.cfg.mcar_probability # None
               /\ McarTriggers(u, Val(err.cfg.mcar_probability)))
          /\ IF err.cfg.drift_rate = None
             THEN err' = [err EXCEPT !.last =
                             [value |-> value, dropped |-> FALSE, elapsed |-> None,
                              result |-> Noise(Anomaly(value, err.cfg, ua), err.cfg, g)]]
             ELSE LET acc0 == IF err.drift_accumulated = None THEN 0
                              ELSE Val(err.drift_accumulated)
                      acc1 == acc0 + Val(err.cfg.drift_rate)
                  IN  /\ Abs(acc1) <= DriftCap
                      /\ IF err.cfg.drift_reset_interval = None
                         THEN err' = [err EXCEPT
                                 !.drift_accumulated = Some(acc1),
                                 !.last = [value |-> value, dropped |-> FALSE,
                                           elapsed |-> None,
                                           result |-> Noise(Anomaly(Num(value.n + acc1),
                                                                    err.cfg, ua), err.cfg, g)]]
                         ELSE \E ta \in ClockReadings(err.clock) :
                              \E tb \in ClockReadings(ta) :
                              \E tc \in ClockReadings(tb) :
                                LET start == IF err.drift_start_time = None THEN ta
                                             ELSE Val(err.drift_start_time)
                                    expired == WindowExpired(tb - start,
                                                   Val(err.cfg.drift_reset_interval))
                                    acc2 == IF expired THEN 0 ELSE acc1
                                IN  err' = [err EXCEPT
                                       !.drift_accumulated = Some(acc2),
                                       !.drift_start_time =
                                           Some(IF expired THEN tc ELSE start),
                                       !.clock = IF expired THEN tc ELSE tb,
                                       !.last = [value |-> value, dropped |-> FALSE,
                                                 elapsed |-> Some(tb - start),
                                                 result |-> Noise(Anomaly(Num(value.n + acc2),
                                                                          err.cfg, ua), err.cfg, g)]]
    /\ UNCHANGED <<rw, lin>>
    /\ UNCHANGED <<writerVars, unitVars>>

NextError == ApplyNull \/ ApplyDropped \/ ApplyOther \/ ApplyNumber

SpecError == InitError /\ [][NextError]_vars

\* an apply call on a number, with drift_rate configured
DriftCall ==
    /\ err' # err
    /\ IsNumber(err'.last.value)
    /\ err.cfg.drift_rate # None
DriftBefore == IF err.drift_accumulated = None THEN 0 ELSE Val(err.drift_accumulated)
\* the call saw more than drift_reset_interval elapsed since the window start
DriftExpired ==
    /\ err.cfg.drift_reset_interval # None
    /\ err'.last.elapsed # None
    /\ Val(err'.last.elapsed) > Val(err.cfg.drift_reset_interval)

\* C9 as stated: every apply call on a number changes drift_accumulated by
\* exactly drift_rate, except the call that sees the reset interval exceeded,
\* which sets it to 0 and restarts the window.  (Fails: a call dropped by
\* MCAR returns before the drift is accumulated.)
C9_DriftEveryCall ==
    [][ DriftCall
          => IF DriftExpired
             THEN /\ err'.drift_accumulated = Some(0)
                  /\ err'.drift_start_time = Some(err'.clock)
             ELSE err'.drift_accumulated = Some(DriftBefore + Val(err.cfg.drift_rate)) ]_vars

\* C9 amended: the same, for every apply call that MCAR does not drop; a
\* dropped call leaves drift_accumulated and the window as they are.
C9_DriftEveryPassedCall ==
    [][ DriftCall
          => IF err'.last.dropped
             THEN /\ err'.drift_accumulated = err.drift_accumulated
                  /\ err'.drift_start_time = err.drift_start_time
             ELSE IF DriftExpired
             THEN /\ err'.drift_accumulated = Some(0)
                  /\ err'.drift_start_time = Some(err'.clock)
             ELSE /\ err'.drift_accumulated = Some(DriftBefore + Val(err.cfg.drift_rate))
                  /\ (err.drift_start_time # None
                        => err'.drift_start_time = err.drift_start_time) ]_vars

\* drift has accumulated over several calls and a later call has reset it
C9_Witness ==
    /\ err.on /\ err.cfg.drift_rate = Some(3)
    /\ err.cfg.drift_reset_interval = Some(2)
    /\ err.last.elapsed # None /\ Val(err.last.elapsed) > 2
    /\ err.drift_accumulated = Some(0)
    /\ ~err.last.dropped

\* C10: with mcar_probability 1.0 every call returns null; with 0.0 no call
\* on a non-null value returns null.
C10_McarExtremes ==
    (err.on /\ err.last.value.kind # "none" /\ err.cfg.mcar_probability # None)
        => /\ Val(err.cfg.mcar_probability) = Scale => err.last.result = NullValue
           /\ (Val(err.cfg.mcar_probability) = 0 /\ err.last.value # NullValue)
                 => err.last.result # NullValue

\* probability 1.0 has dropped a number
C10_Witness ==
    /\ err.on /\ err.cfg.mcar_probability = Some(Scale)
    /\ err.last.value = Num(10)
    /\ err.last.dropped
    /\ err.last.result = NullValue

\* =====================================================================
\* LogicEngine (services/simulation_engine.py)
\* =====================================================================
\* longest rule list followed
MaxRules == 2

\* Parameter ids a rule can read or write.
Names == {"x", "y", "z"}
\* a dict over Names: None marks an absent key
EmptyDict == [n \in Names |-> None]
Contexts == {[EmptyDict EXCEPT !["x"] = Some(5)],
             [EmptyDict EXCEPT !["x"] = Some(0)],
             [EmptyDict EXCEPT !["x"] = Some(5), !["y"] = Some(0)]}

\* Expression texts handed to simple_eval: a literal, a name, a comparison
\* of a name with a literal, or a text that does not parse.  "missing" is
\* an absent or empty text.
Missing == [kind |-> "missing", name |-> "", k |-> 0]
Unparsable == [kind |-> "bad", name |-> "", k |-> 0]
Lit(k) == [kind |-> "lit", name |-> "", k |-> k]
Name(n) == [kind |-> "name", name |-> n, k |-> 0]
Gt(n, k) == [kind |-> "gt", name |-> n, k |-> k]
Eq(n, k) == [kind |-> "eq", name |-> n, k |-> k]

\* Action texts: absent, "key = expr", or a text without "=".
MissingAction == [kind |-> "missing", key |-> "", rhs |-> Missing]
NoAssign == [kind |-> "noassign", key |-> "", rhs |-> Missing]
Assign(key, rhs) == [kind |-> "assign", key |-> key, rhs |-> rhs]

Conditions == {Missing, Gt("x", 0), Eq("y", 1), Unparsable}
Actions == {MissingAction, NoAssign, Assign("y", Lit(1)), Assign("z", Lit(2)),
            Assign("z", Name("y")), Assign("z", Unparsable)}
Rules == [condition : Conditions, action : Actions]
RuleLists == UNION {[1..n -> Rules] : n \in 0..MaxRules}

\* simple_eval(expr, names=safe_dict): the value (True is 1, False is 0),
\* or an exception for an unknown name or a text that does not parse
Raised == [raised |-> TRUE, v |-> 0]
Value(v) == [raised |-> FALSE, v |-> v]
SimpleEval(e, names) ==
    IF e.kind = "lit" THEN Value(e.k)
    ELSE IF e.kind \in {"name", "gt", "eq"}
    THEN IF names[e.name] = None THEN Raised
         ELSE LET v == Val(names[e.name])
              IN  IF e.kind = "name" THEN Value(v)
                  ELSE IF e.kind = "gt" THEN Value(IF v > e.k THEN 1 ELSE 0)
                  ELSE Value(IF v = e.k THEN 1 ELSE 0)
    ELSE Raised

\* updates[key] = val; safe_dict[key] = val
AssignedUpdatesOnly(st, key, val) ==
    [st EXCEPT !.updates[key] = Some(val)]
Assigned(st, key, val) ==
    [st EXCEPT !.updates[key] = Some(val), !.safe_dict[key] = Some(val)]

Logged(st, outcome) == [st EXCEPT !.outcomes = Append(@, outcome)]

\* the body of the for loop for one rule
RuleBody(st, rule) ==
    IF rule.condition.kind = "missing" \/ rule.action.kind = "missing"
    THEN Logged(st, "skipped")
    ELSE LET c == SimpleEval(rule.condition, st.safe_dict)
         IN  IF c.raised THEN Logged(st, "raised")
             ELSE IF c.v = 0 THEN Logged(st, "false")
             ELSE IF rule.action.kind # "assign" THEN Logged(st, "noassign")
             ELSE LET val == SimpleEval(rule.action.rhs, st.safe_dict)
                  IN  IF val.raised THEN Logged(st, "raised")
                      ELSE Logged(Assigned(st, rule.action.key, val.v),
                                  "assigned")

\* whether the loop goes on to the next rule after an outcome: the
\* continue and the exception handler are both inside the loop body
ContinuesUnlessRaised(outcome) == outcome # "raised"
Continues(outcome) == TRUE

RECURSIVE EvaluateRules(_, _)
EvaluateRules(st, rules) ==
    IF rules = <<>> THEN st
    ELSE LET after == RuleBody(st, Head(rules))
         IN  IF Continues(after.outcomes[Len(after.outcomes)])
             THEN EvaluateRules(after, Tail(rules))
             ELSE after

\* LogicEngine.evaluate(context, rules): the locals when it returns
EvaluateCall(context, rules) ==
    EvaluateRules([safe_dict |-> context, updates |-> EmptyDict,
                   outcomes |-> <<>>], rules)

\* what the caller's map holds after the call: safe_dict is a copy
ContextAfter(context, safe_dict) == context

NotCalled == [returned |-> FALSE, updates |-> EmptyDict, outcomes |-> <<>>]

InitLogic ==
    /\ RestIdleLogic
    /\ \E context \in Contexts, rules \in RuleLists :
          logic = [on |-> TRUE, called_with |-> context, context |-> context,
                   rules |-> rules, call |-> NotCalled]

\* LogicEngine.evaluate
Evaluate ==
    /\ logic.on /\ ~logic.call.returned
    /\ LET st == EvaluateCall(logic.context, logic.rules)
       IN  logic' = [logic EXCEPT
                       !.context = ContextAfter(logic.context, st.safe_dict),
                       !.call = [returned |-> TRUE, updates |-> st.updates,
                                 outcomes |-> st.outcomes]]
    /\ UNCHANGED restOfLogic

NextLogic == Evaluate

SpecLogic == InitLogic /\ [][NextLogic]_vars

\* ---- claims about the logic engine ----
ExampleContext == [EmptyDict EXCEPT !["x"] = Some(5)]
ExampleRules == <<[condition |-> Gt("x", 0), action |-> Assign("y", Lit(1))],
                  [condition |-> Eq("y", 1), action |-> Assign("z", Lit(2))]>>
ExampleUpdates == [EmptyDict EXCEPT !["y"] = Some(1), !["z"] = Some(2)]
Returned == logic.on /\ logic.call.returned
\* rule k wrote a literal to the name that the condition of rule k+1 reads
WriteThenRead(k) ==
    /\ logic.call.outcomes[k] = "assigned"
    /\ logic.rules[k].action.rhs.kind = "lit"
    /\ logic.rules[k + 1].condition.kind \in {"gt", "eq"}
    /\ logic.rules[k + 1].condition.name = logic.rules[k].action.key
    /\ logic.rules[k + 1].action.kind # "missing"
\* rule k wrote a literal to the name that the right-hand side of the last
\* rule reads
WriteThenCopy(k) ==
    /\ k + 1 = Len(logic.rules)
    /\ logic.call.outcomes[k] = "assigned"
    /\ logic.rules[k].action.rhs.kind = "lit"
    /\ logic.call.outcomes[k + 1] = "assigned"
    /\ logic.rules[k + 1].action.rhs = Name(logic.rules[k].action.key)

\* C11: evaluate processes the rules in list order and a satisfied rule's
\* assignment is seen by the conditions and right-hand sides of the later
\* rules of the call: the example rules on {x:5} return exactly {y:1, z:2},
\* and the caller's context map is left as it was.
C11_LaterRulesSeeWrites ==
    Returned =>
      /\ logic.context = logic.called_with
      /\ Len(logic.call.outcomes) = Len(logic.rules)
      /\ (logic.rules = ExampleRules /\ logic.called_with = ExampleContext)
            => logic.call.updates = ExampleUpdates
      /\ \A k \in 1..(Len(logic.rules) - 1) :
            /\ WriteThenRead(k) =>
                  LET written == logic.rules[k].action.rhs.k
                      c == logic.rules[k + 1].condition
                      holds == IF c.kind = "gt" THEN written > c.k
                               ELSE written = c.k
                  IN  (logic.call.outcomes[k + 1] = "false") <=> ~holds
            /\ WriteThenCopy(k) =>
                  logic.call.updates[logic.rules[k + 1].action.key]
                     = Some(logic.rules[k].action.rhs.k)

C11_Witness ==
    /\ Returned
    /\ logic.rules = ExampleRules
    /\ logic.called_with = ExampleContext
    /\ logic.call.updates = ExampleUpdates

RemoveAt(seq, k) == SubSeq(seq, 1, k - 1) \o SubSeq(seq, k + 1, Len(seq))
Malformed(k) == logic.call.outcomes[k] \in {"skipped", "raised"}

\* C12: a malformed rule (condition or action missing, or an evaluation
\* that fails) adds no update and does not end the evaluation: every rule
\* of the list gets its turn, and the call returns what it returns for the
\* list without the malformed rule.
C12_MalformedRuleSkipped ==
    Returned =>
      /\ Len(logic.call.outcomes) = Len(logic.rules)
      /\ \A k \in 1..Len(logic.rules) :
            Malformed(k) =>
               LET without == EvaluateCall(logic.called_with,
                                           RemoveAt(logic.rules, k))
               IN  /\ logic.call.updates = without.updates
                   /\ RemoveAt(logic.call.outcomes, k) = without.outcomes

C12_Witness ==
    /\ Returned
    /\ Len(logic.rules) = 2
    /\ logic.call.outcomes = <<"raised", "assigned">>

\* =====================================================================
\* Super-table schema sync (services/tdengine_service.py)
\* =====================================================================
\* number of consecutive create_super_table calls followed
MaxRuns == 2

\* A parameter of the list, or a column / tag of the table.
Field(id, type, tag) == [id |-> id, type |-> type, tag |-> tag]
\* device_name is a tag of every super table (line 430; ts and
\* device_model, which no parameter of the lists below is named after,
\* are left out)
DeviceNameTag == Field("device_name", "NCHAR(64)", TRUE)

\* Parameter lists: ids are unique within a list (spec: unique within a
\* device); the list order is a, b, device_name.
ParamChoices(id, types) ==
    {<<>>} \cup {<<Field(id, ty, tag)>> : ty \in types, tag \in BOOLEAN}
ParameterLists ==
    {a \o b \o n : a \in ParamChoices("a", {"NUMBER", "STRING"}),
                   b \in ParamChoices("b", {"NUMBER"}),
                   n \in {<<>>, <<Field("device_name", "STRING", FALSE)>>}}

\* _get_tdengine_type
TdengineType(param_type) ==
    IF param_type = "NUMBER" THEN "DOUBLE"
    ELSE IF param_type = "BOOLEAN" THEN "BOOL"
    ELSE IF param_type = "STRING" THEN "NCHAR(255)"
    ELSE "DOUBLE"

Ids(fields) == {f.id : f \in fields}
Range(seq) == {seq[i] : i \in 1..Len(seq)}

\* Tables an earlier parameter list can have left: absent, or present with
\* the device_name tag and any columns / tags for a and b.
NoTable == [exists |-> FALSE, fields |-> {}]
Tables ==
    {NoTable} \cup
    {[exists |-> TRUE, fields |-> {DeviceNameTag} \cup a \cup b] :
        a \in {{}} \cup {{Field("a", ty, tag)} :
                           ty \in {"DOUBLE", "NCHAR(255)"}, tag \in BOOLEAN},
        b \in {{}} \cup {{Field("b", "DOUBLE", tag)} : tag \in BOOLEAN}}

\* ---- statements ----
\* CREATE STABLE IF NOT EXISTS name (ts TIMESTAMP, columns) TAGS (tags)
CreateStable(parameters) ==
    [kind |-> "CREATE",
     fields |-> {DeviceNameTag} \cup
                {Field(p.id, TdengineType(p.type), p.tag) :
                    p \in {q \in Range(parameters) : q.id # "device_name"}}]
\* ALTER STABLE name ADD TAG | ADD COLUMN id type
AlterAdd(p) ==
    [kind |-> IF p.tag THEN "ADD TAG" ELSE "ADD COLUMN",
     fields |-> {Field(p.id, TdengineType(p.type), p.tag)}]

\* The store's answer to a statement: the table afterwards, or a rejection.
\* CREATE ... IF NOT EXISTS leaves a present table alone; ADD of a name
\* that the table has is rejected.
Rejects(table, stmt) ==
    stmt.kind # "CREATE" /\ (~table.exists \/ Ids(stmt.fields) \subseteq Ids(table.fields))
Apply(table, stmt) ==
    IF stmt.kind = "CREATE"
    THEN IF table.exists THEN table
         ELSE [exists |-> TRUE, fields |-> stmt.fields]
    ELSE [table EXCEPT !.fields = @ \cup stmt.fields]

\* existing_cols: the Field names of DESCRIBE; execute_query gives [] when
\* the query fails
ExistingColsEmpty(table, descOk) == {}
ExistingCols(table, descOk) == IF descOk THEN Ids(table.fields) ELSE {}

\* the for loop of the ALTER branch: params still to look at, the run so
\* far, the index (among the issued statements) of the one the connection
\* loses
RECURSIVE AlterLoop(_, _, _, _)
AlterLoop(params, existing_cols, run, failAt) ==
    IF params = <<>> THEN [run EXCEPT !.ret = TRUE]
    ELSE LET p == Head(params)
         IN  IF p.id \in existing_cols
             THEN AlterLoop(Tail(params), existing_cols, run, failAt)
             ELSE LET stmt == AlterAdd(p)
                      issued == Append(run.issued, stmt)
                  IN  IF Len(issued) = failAt \/ Rejects(run.table, stmt)
                      THEN [run EXCEPT !.issued = issued, !.ret = FALSE]
                      ELSE AlterLoop(Tail(params), existing_cols,
                                     [run EXCEPT !.issued = issued,
                                                 !.table = Apply(run.table, stmt)],
                                     failAt)

\* The list holds dicts (the category route, api/category.py:29-37) or
\* Parameter objects (device.parameters).  Parameter declares no is_tag
\* field, so for an object the read of is_tag falls through to param.get,
\* which a Parameter does not have: AttributeError at the first parameter
\* whose is_tag is read (lines 421 and 456).
ListKinds == {"dict", "object"}
IsTagReadRaises(kind, parameters, existing) ==
    /\ kind = "object"
    /\ IF existing THEN parameters # <<>>
       ELSE \E p \in Range(parameters) : p.id # "device_name"

\* create_super_table(name, parameters), with the outcome of its two
\* queries and the statement (if any) that fails on the connection
SyncRun(table, parameters, kind, showOk, descOk, failAt) ==
    LET start == [table |-> table, before |-> table, issued |-> <<>>,
                  ret |-> FALSE]
        existing == showOk /\ table.exists
    IN  IF IsTagReadRaises(kind, parameters, existing) THEN start
        ELSE IF ~existing
        THEN LET stmt == CreateStable(parameters)
             IN  IF failAt = 1
                 THEN [start EXCEPT !.issued = <<stmt>>]
                 ELSE [start EXCEPT !.issued = <<stmt>>, !.ret = TRUE,
                                    !.table = Apply(table, stmt)]
        ELSE AlterLoop(parameters, ExistingCols(table, descOk), start, failAt)

NoRun == [before |-> NoTable, issued |-> <<>>, ret |-> FALSE,
          showOk |-> FALSE, descOk |-> FALSE]

InitSchema ==
    /\ RestIdleStable
    /\ \E table \in Tables, parameters \in ParameterLists, kind \in ListKinds :
          stable = [on |-> TRUE, table |-> table, parameters |-> parameters,
                    kind |-> kind, runs |-> 0, prev |-> NoRun, last |-> NoRun]

\* TDengineService.create_super_table
CreateSuperTable ==
    /\ stable.on /\ stable.runs < MaxRuns
    /\ \E showOk \in BOOLEAN, descOk \in BOOLEAN, failAt \in 0..2 :
          LET run == SyncRun(stable.table, stable.parameters, stable.kind,
                             showOk, descOk, failAt)
          IN  stable' = [stable EXCEPT
                           !.table = run.table,
                           !.runs = @ + 1,
                           !.prev = stable.last,
                           !.last = [before |-> run.before,
                                     issued |-> run.issued, ret |-> run.ret,
                                     showOk |-> showOk, descOk |-> descOk]]
    /\ UNCHANGED restOfStable

NextSchema == CreateSuperTable

SpecSchema == InitSchema /\ [][NextSchema]_vars

\* ---- claim about the schema sync ----
Adds(issued) == {i \in 1..Len(issued) : issued[i].kind \in {"ADD COLUMN", "ADD TAG"}}

QueriesOk(run) == run.showOk /\ run.descOk

writerButModbus == <<running, wpc, cpc, ret, now, current_time,
                     last_cache_update, device_cache, registry, widx,
                     tdengine_connected, data, tickLog, tickFail, stopMidTick,
                     td, mqtt_connected, opcua_running>>

\* devices handed to the sink
MaxFieldbusDevices == 3
FieldbusDevices == 1..MaxFieldbusDevices

\* ModbusService.__new__: not running, no mapping
InitModbus ==
    /\ RestIdleFieldbus
    /\ fieldbus = [on |-> TRUE, restarted |-> FALSE]

\* ModbusService.start: leaves a running server on the same port alone,
\* stops when the setting is off, else builds a new data store (all
\* registers 0) and runs; device_mappings is not touched
ModbusStart ==
    /\ \E enabled \in BOOLEAN, samePort \in BOOLEAN :
          IF ~enabled
          THEN modbus' = [modbus EXCEPT !.running = FALSE] /\ UNCHANGED fieldbus
          ELSE IF modbus.running /\ samePort
          THEN UNCHANGED <<modbus, fieldbus>>
          ELSE /\ modbus' = [modbus EXCEPT !.running = TRUE, !.registers = <<>>]
               /\ fieldbus' = [fieldbus EXCEPT
                                 !.restarted = @ \/ modbus.device_mappings # <<>>]
    /\ UNCHANGED writerButModbus
    /\ UNCHANGED <<engineVars, unitsButFieldbus>>

\* ModbusService.stop
ModbusStop ==
    /\ modbus' = [modbus EXCEPT !.running = FALSE]
    /\ UNCHANGED writerButModbus
    /\ UNCHANGED <<engineVars, unitVars>>

\* ModbusService.update(device_id, data, parameters) for a device with one
\* parameter: nothing when not running; else the block is allocated on the
\* first encounter and the value written, unless its conversion raises
ModbusUpdateCall ==
    /\ \E d \in FieldbusDevices, v \in SampleValues :
          IF ~modbus.running
          THEN modbus' = modbus
          ELSE LET m == Allocate(modbus.device_mappings, d)
               IN  IF ModbusRaises(v)
                   THEN modbus' = [modbus EXCEPT !.device_mappings = m]
                   ELSE modbus' = [modbus EXCEPT
                                     !.device_mappings = m,
                                     !.registers = SetValues(@, m[d], ToRegister(v))]
    /\ UNCHANGED writerButModbus
    /\ UNCHANGED <<engineVars, unitVars>>

NextModbus == ModbusStart \/ ModbusStop \/ ModbusUpdateCall

SpecModbus == InitModbus /\ [][NextModbus]_vars

\* ---- claim about the allocation ----
Mapped == DOMAIN modbus.device_mappings
\* the registers start .. start + RegisterBlock - 1
Block(start) == start..(start + RegisterBlock - 1)

\* C14: the offsets of the devices seen so far are RegisterBase +
\* RegisterBlock * k for k = 0 .. N-1, one per device, so that the N blocks
\* of RegisterBlock registers are pairwise disjoint; and an offset once
\* assigned stays, also across stop and start of the sink.
C14_OffsetsInjectiveAndStable ==
    /\ [](/\ {modbus.device_mappings[d] : d \in Mapped}
               = {RegisterBase + RegisterBlock * k :
                     k \in 0..(Cardinality(Mapped) - 1)}
          /\ \A d1 \in Mapped, d2 \in Mapped :
                d1 # d2 => Block(modbus.device_mappings[d1])
                             \cap Block(modbus.device_mappings[d2]) = {})
    /\ [][\A d \in Mapped :
             /\ d \in DOMAIN modbus'.device_mappings
             /\ modbus'.device_mappings[d] = modbus.device_mappings[d]]_vars

\* every device has its block, the sink was stopped and started again (the
\* registers are those of a new data store) and runs
C14_Witness ==
    /\ Mapped = FieldbusDevices
    /\ fieldbus.on /\ fieldbus.restarted
    /\ modbus.running
    /\ modbus.registers = <<>>

\* =====================================================================
\* End to end: process_devices generating for one device
\* (services/data_writer.py 92-99, services/data_generator.py)
\* =====================================================================
\* ticks followed
MaxTicks == 30

\* positional arguments of the call at data_writer.py:94 (device.id,
\* device.parameters, physics_config, logic_rules) and parameters that
\* generate_device_data declares (device_id, parameters)
CallArguments == 4
DeclaredParameters == 2
\* binding of positional arguments to parameters without defaults; a
\* mismatch is a TypeError
Binds(nargs, nparams) == nargs = nparams

\* the parameter of the claim: NUMBER, min 0, max 100, RANDOM_WALK, no
\* step_range, noise_sigma or anomaly_rate in generation_params
WalkParameter(dv) ==
    [min_value |-> Some(0), max_value |-> Some(100), default_value |-> dv,
     step_range |-> None]

NoSample == [raised |-> FALSE, value |-> None]

InitTick ==
    /\ RestIdleE2e
    /\ \E dv \in DefaultValues :
          e2e = [on |-> TRUE, parameter |-> WalkParameter(dv),
                 current_value |-> None, ticks |-> 0, last |-> NoSample]

\* DataGenerator._generate_random_walk followed by _apply_noise and
\* _apply_anomaly, which return the value as it is for noise_sigma 0 and
\* anomaly_rate 0
GenerateData(p, current_value, change) ==
    LET cur == IF current_value = None THEN LegacyWalkStart(p)
               ELSE Val(current_value)
    IN  Clamp(cur + change, p.min_value, p.max_value)

\* one iteration of process_devices for the device: the call of line 94;
\* a TypeError leaves through the handler of line 145
TickGenerate ==
    /\ e2e.on /\ e2e.ticks < MaxTicks
    /\ IF ~Binds(CallArguments, DeclaredParameters)
       THEN e2e' = [e2e EXCEPT !.ticks = @ + 1,
                               !.last = [raised |-> TRUE, value |-> None]]
       ELSE \E change \in UniformGrid(LegacyWalkStepRange(e2e.parameter)) :
               LET v == GenerateData(e2e.parameter, e2e.current_value, change)
               IN  e2e' = [e2e EXCEPT !.ticks = @ + 1,
                                      !.current_value = Some(v),
                                      !.last = [raised |-> FALSE,
                                                value |-> Some(v)]]
    /\ UNCHANGED restOfE2e

NextTick == TickGenerate

SpecTick == InitTick /\ [][NextTick]_vars

\* C15: every tick of the device through the scheduler's generate call
\* yields a sample whose value is within [0, 100], and no tick raises.
C15_EveryTickInRange ==
    (e2e.on /\ e2e.ticks >= 1) =>
       /\ ~e2e.last.raised
       /\ e2e.last.value # None
       /\ Val(e2e.last.value) >= 0 /\ Val(e2e.last.value) <= 100

\* =====================================================================
\* The value payload for the time-series sink
\* (services/data_writer.py 102-143, api/data.py 96-116)
\* =====================================================================
\* Parameter ids of the device; a sample has one key per parameter.
SampleKeys == {"temp", "site", "device_name"}
StandardTags == {"device_id", "device_name", "device_model"}
\* a dict over SampleKeys: None marks an absent key
NoKeys == [k \in SampleKeys |-> None]
Keys(dict) == {k \in SampleKeys : dict[k] # None}

\* The registry's parameter JSON of a device: per id, no such parameter, a
\* parameter without the is_tag flag, or one with is_tag true.
StoredParameters == [SampleKeys -> {"absent", "column", "tag"}]
\* DataGenerator.generate_device_data: one value per parameter
Samples(stored) ==
    {smp \in [SampleKeys -> {None, Some(5), Some(7)}] :
        \A k \in SampleKeys : (smp[k] = None) <=> (stored[k] = "absent")}

\* Device(parameters=...) builds Parameter objects from the JSON (device
\* service lines 38-52); Parameter declares no is_tag field, so the object
\* keeps the id and drops the flag.
ParameterObjects(stored) == {[id |-> k] : k \in {j \in SampleKeys : stored[j] # "absent"}}
\* hasattr(p, 'is_tag') and p.is_tag, for a Parameter object
IsTag(p, stored) == FALSE

\* data_writer.py 108-124: ids of the tag parameters plus the standard tags
LiveTagIds(stored) ==
    {p.id : p \in {q \in ParameterObjects(stored) : IsTag(q, stored)}}
       \cup StandardTags
\* api/data.py 101-108: ids of the tag parameters
HistoryTagIds(stored) ==
    {p.id : p \in {q \in ParameterObjects(stored) : IsTag(q, stored)}}

\* the copy of the keys that are not in tag_ids
Filtered(smp, tag_ids) == [k \in SampleKeys |-> IF k \in tag_ids THEN None ELSE smp[k]]

NotWritten == [path |-> "none", td_data |-> NoKeys, inserted |-> FALSE,
               handed |-> NoKeys]

InitPayload ==
    /\ RestIdlePayload
    /\ \E stored \in StoredParameters :
          \E smp \in Samples(stored) :
             payload = [on |-> TRUE, stored |-> stored, data |-> smp,
                        written |-> NotWritten]

\* process_devices for one device with the time-series sink connected:
\* filter, insert unless the payload is empty, then hand data to the other
\* sinks
LiveWrite ==
    /\ payload.on /\ payload.written.path = "none"
    /\ LET td_data == Filtered(payload.data, LiveTagIds(payload.stored))
       IN  payload' = [payload EXCEPT !.written =
                          [path |-> "live", td_data |-> td_data,
                           inserted |-> Keys(td_data) # {},
                           handed |-> payload.data]]
    /\ UNCHANGED restOfPayload

\* generate_history_data for one data point: filter, then insert
HistoryWrite ==
    /\ payload.on /\ payload.written.path = "none"
    /\ LET filtered_data == Filtered(payload.data, HistoryTagIds(payload.stored))
       IN  payload' = [payload EXCEPT !.written =
                          [path |-> "history", td_data |-> filtered_data,
                           inserted |-> TRUE, handed |-> NoKeys]]
    /\ UNCHANGED restOfPayload

NextPayload == LiveWrite \/ HistoryWrite

SpecPayload == InitPayload /\ [][NextPayload]_vars

\* ---- claim about the payload ----
Excluded == {k \in SampleKeys : payload.stored[k] = "tag"} \cup StandardTags

\* C16: the value payload handed to the time-series sink has no key that is
\* the id of a tag-flagged parameter or one of device_id, device_name,
\* device_model, has every other key of the sample with its value, and is
\* not inserted when it is empty; the sample handed to the other sinks is
\* the unfiltered one.
C16_TagsKeptOutOfPayload ==
    (payload.on /\ payload.written.path # "none") =>
       /\ Keys(payload.written.td_data) \cap Excluded = {}
       /\ \A k \in Keys(payload.data) \ Excluded :
             payload.written.td_data[k] = payload.data[k]
       /\ Keys(payload.written.td_data) = {} => ~payload.written.inserted
       /\ payload.written.path = "live" => payload.written.handed = payload.data

\* =====================================================================
\* SimulationStateManager and DeviceService.delete_device
\* (services/simulation_engine.py 232-250, services/device_service.py)
\* =====================================================================
\* largest position a device state is followed to
MaxPosition == 2

\* DeviceState.__init__
FreshState == [position |-> 0, velocity |-> 0, parameter_states |-> {},
               error_context |-> {}]

\* SimulationStateManager.get_state lines 243-244
GetOrCreate(states, d) ==
    IF states[d] = None THEN [states EXCEPT ![d] = Some(FreshState)] ELSE states

\* SimulationStateManager.clear_state
ClearStateKeeps(states, d) == states
ClearState(states, d) == [states EXCEPT ![d] = None]

NoOp == [op |-> "none", id |-> 0, ret |-> FALSE, state |-> None]

InitStore ==
    /\ RestIdleStore
    /\ \E db \in SUBSET DeviceIds :
          store = [on |-> TRUE, db |-> db, states |-> [d \in DeviceIds |-> None],
                   last |-> NoOp]

\* SimulationStateManager.get_state(d)
GetState(d) ==
    /\ store.on
    /\ LET states == GetOrCreate(store.states, d)
       IN  store' = [store EXCEPT
                       !.states = states,
                       !.last = [op |-> "get_state", id |-> d, ret |-> TRUE,
                                 state |-> states[d]]]
    /\ UNCHANGED restOfStore

\* a holder of the DeviceState of d writes to it: a physics step, a
\* parameter's generation state, an error context
WriteState(d) ==
    /\ store.on /\ store.states[d] # None
    /\ LET st == Val(store.states[d])
       IN  \E new \in {[st EXCEPT !.position = @ + 1, !.velocity = 1],
                       [st EXCEPT !.parameter_states = {"p"}],
                       [st EXCEPT !.error_context = {"p"}]} :
              /\ new.position <= MaxPosition
              /\ store' = [store EXCEPT
                             !.states[d] = Some(new),
                             !.last = [op |-> "write", id |-> d, ret |-> TRUE,
                                       state |-> None]]
    /\ UNCHANGED restOfStore

\* DeviceService.create_device(d): a row in the device table
CreateDevice(d) ==
    /\ store.on /\ d \notin store.db
    /\ store' = [store EXCEPT
                   !.db = @ \cup {d},
                   !.last = [op |-> "create_device", id |-> d, ret |-> TRUE,
                             state |-> None]]
    /\ UNCHANGED restOfStore

\* DeviceService.delete_device(d): False for an unknown id; else the row
\* is deleted, the device's table dropped (a failure of that is caught)
\* and the state cleared.  A commit that raises leaves through finally.
DeleteDevice(d) ==
    /\ store.on
    /\ IF d \notin store.db
       THEN store' = [store EXCEPT
                        !.last = [op |-> "delete_device", id |-> d,
                                  ret |-> FALSE, state |-> None]]
       ELSE \E commits \in BOOLEAN :
               IF ~commits
               THEN store' = [store EXCEPT
                                !.last = [op |-> "delete_device raised",
                                          id |-> d, ret |-> FALSE,
                                          state |-> None]]
               ELSE store' = [store EXCEPT
                                !.db = @ \ {d},
                                !.states = ClearState(@, d),
                                !.last = [op |-> "delete_device", id |-> d,
                                          ret |-> TRUE, state |-> None]]
    /\ UNCHANGED restOfStore

NextStore ==
    \E d \in DeviceIds :
       GetState(d) \/ WriteState(d) \/ CreateDevice(d) \/ DeleteDevice(d)

SpecStore == InitStore /\ [][NextStore]_vars

\* ---- claim about the state store ----
DeletedNow(d) ==
    store'.last = [op |-> "delete_device", id |-> d, ret |-> TRUE, state |-> None]
    /\ d \in store.db /\ d \notin store'.db

\* C17: a delete_device(id) that returns True clears the state of id and
\* leaves the state of every other device as it was; no other operation
\* removes a state; and the first get_state(id) after a clear (or ever)
\* returns the fresh state: position 0, velocity 0, empty parameter and
\* error maps.
C17_StateLivesUntilDelete ==
    [][/\ \A d \in DeviceIds :
             DeletedNow(d) =>
                /\ store'.states[d] = None
                /\ \A e \in DeviceIds \ {d} : store'.states[e] = store.states[e]
       /\ (\A d \in DeviceIds : ~DeletedNow(d)) =>
             \A e \in DeviceIds : store.states[e] # None => store'.states[e] # None
       /\ \A d \in DeviceIds :
             (store'.last.op = "get_state" /\ store'.last.id = d
                 /\ store.states[d] = None)
                => /\ store'.last.state = Some(FreshState)
                   /\ store'.states[d] = Some(FreshState)]_vars

\* a device whose state was written to has been deleted, its state is gone
\* and the other device's written state is still there
C17_Witness ==
    /\ store.on
    /\ store.last = [op |-> "delete_device", id |-> 1, ret |-> TRUE, state |-> None]
    /\ store.states[1] = None
    /\ store.states[2] # None
    /\ store.states[2] # Some(FreshState)

\* =====================================================================
\* Timestamps of the samples across ticks
\* (services/data_writer.py 46-76, services/data_generator.py 180-191)
\* =====================================================================
\* Time is in tenths of a second here.  The wall clock (time.time(),
\* datetime.utcnow()) does not run backwards and time.sleep(t) returns
\* after at least t.
MaxStampTime == 14

\* self.interval = 1.0, the floor 0.1 of line 71, time.sleep(1)
Interval == 10
SleepFloor == 1
IdleSleep == 10

\* line 71: max(0.1, self.interval - elapsed)
SleepTimeNoFloor(elapsed) == Interval - elapsed
SleepTime(elapsed) == Max(SleepFloor, Interval - elapsed)

\* DataWriter.__init__, with the devices the cache will hold
InitStamps ==
    /\ RestIdleStamps
    /\ \E cache \in {<<>>, [d \in DeviceIds |-> d]} :
          stamps = [on |-> TRUE, clock |-> 0, running |-> FALSE, pc |-> "none",
                    cache |-> cache, loop_start |-> 0, idx |-> 0,
                    sleep_until |-> 0,
                    timestamp |-> [d \in DeviceIds |-> None],
                    samples |-> [d \in DeviceIds |-> 0]]

\* DataWriter.start, called when no worker thread is left
StampStart ==
    /\ stamps.on /\ ~stamps.running /\ stamps.pc \in {"none", "exited"}
    /\ stamps' = [stamps EXCEPT !.running = TRUE, !.pc = "while"]
    /\ UNCHANGED restOfStamps

\* DataWriter.stop: clears the flag; the join returns when the worker has
\* left its loop
StampStop ==
    /\ stamps.on /\ stamps.running
    /\ stamps' = [stamps EXCEPT !.running = FALSE]
    /\ UNCHANGED restOfStamps

\* lines 49-65: the while test, loop_start, and the sleep of an empty cache
StampWhile ==
    /\ stamps.on /\ stamps.pc = "while"
    /\ IF ~stamps.running THEN stamps' = [stamps EXCEPT !.pc = "exited"]
       ELSE IF stamps.cache = <<>>
       THEN stamps' = [stamps EXCEPT !.loop_start = stamps.clock,
                                     !.pc = "sleep",
                                     !.sleep_until = stamps.clock + IdleSleep]
       ELSE stamps' = [stamps EXCEPT !.loop_start = stamps.clock,
                                     !.pc = "devices", !.idx = 1]
    /\ UNCHANGED restOfStamps

\* line 94 and generate_device_data line 184: the sample of the device at
\* hand takes the reading of the wall clock as its timestamp; or the call
\* raises and process_devices returns
StampGenerate ==
    /\ stamps.on /\ stamps.pc = "devices"
    /\ LET d == stamps.cache[stamps.idx]
       IN  \/ stamps' = [stamps EXCEPT
                           !.timestamp[d] = Some(stamps.clock),
                           !.samples[d] = 1 - @,
                           !.idx = @ + 1,
                           !.pc = IF stamps.idx = Len(stamps.cache)
                                  THEN "elapsed" ELSE "devices"]
           \/ stamps' = [stamps EXCEPT !.pc = "elapsed"]
    /\ UNCHANGED restOfStamps

\* lines 70-71: elapsed and sleep_time
StampElapsed ==
    /\ stamps.on /\ stamps.pc = "elapsed"
    /\ stamps' = [stamps EXCEPT
                    !.pc = "sleep",
                    !.sleep_until = stamps.clock
                                      + SleepTime(stamps.clock - stamps.loop_start)]
    /\ UNCHANGED restOfStamps

\* time.sleep returns: at least the requested time has passed
StampSleepReturns ==
    /\ stamps.on /\ stamps.pc = "sleep"
    /\ \E t \in {Max(stamps.clock, stamps.sleep_until),
                 Max(stamps.clock, stamps.sleep_until) + 1} :
          /\ t <= MaxStampTime
          /\ stamps' = [stamps EXCEPT !.clock = t, !.pc = "while"]
    /\ UNCHANGED restOfStamps

\* time passes while the worker is not asleep
StampElapse ==
    /\ stamps.on /\ stamps.pc # "sleep" /\ stamps.clock < MaxStampTime
    /\ stamps' = [stamps EXCEPT !.clock = @ + 1]
    /\ UNCHANGED restOfStamps

NextStamps ==
    \/ StampStart \/ StampStop \/ StampWhile \/ StampGenerate
    \/ StampElapsed \/ StampSleepReturns \/ StampElapse

SpecStamps == InitStamps /\ [][NextStamps]_vars

\* ---- claim about the timestamps ----
\* C18: across the ticks of the polling loop, each sample generated for a
\* device has a timestamp strictly after that of the device's previous
\* sample.
C18_TimestampsIncrease ==
    [][\A d \in DeviceIds :
          (stamps.on /\ stamps'.samples[d] # stamps.samples[d]
              /\ stamps.timestamp[d] # None)
             => Val(stamps'.timestamp[d]) > Val(stamps.timestamp[d])]_vars

\* a device has its second sample, one sleep of the floor length after
\* its first
C18_Witness ==
    /\ stamps.on
    /\ stamps.samples[1] = 0
    /\ stamps.timestamp[1] = Some(Interval + SleepFloor)
    /\ stamps.loop_start = Interval + SleepFloor

\* =====================================================================
\* The connection of the time-series sink across ticks
\* (services/tdengine_service.py 60-115, 193-220, 515-546;
\*  services/data_writer.py 83-90, 102-134)
\* =====================================================================
\* self.conn: None, a connection whose link is up (or the REST flag True),
\* or a connection object whose link is gone
ConnValues == {"none", "live", "dead"}

\* TDengineService.__init__, with the sink enabled; REST or native mode
InitTd ==
    /\ RestIdleTdc
    /\ \E use_rest \in BOOLEAN, server \in {"up", "down"} :
          tdc = [on |-> TRUE, use_rest |-> use_rest, conn |-> "none",
                 server |-> server, pc |-> "tick", idx |-> 0,
                 tdengine_connected |-> FALSE, attempted |-> FALSE,
                 failed |-> FALSE, results |-> <<>>]

\* connect(): the outcome and self.conn afterwards.  REST sets the flag
\* when the version query succeeds.  Native assigns the new connection and
\* then runs CREATE DATABASE / USE; when that raises, connect returns False
\* with self.conn assigned.
Connect(t, useOk) ==
    IF t.server = "down" THEN [ok |-> FALSE, conn |-> t.conn]
    ELSE IF t.use_rest \/ useOk THEN [ok |-> TRUE, conn |-> "live"]
    ELSE [ok |-> FALSE, conn |-> "live"]

\* check_connection(): True at once when self.conn is set, else connect()
CheckConnection(t, useOk) ==
    IF t.conn # "none" THEN [ok |-> TRUE, conn |-> t.conn, attempted |-> FALSE]
    ELSE LET c == Connect(t, useOk)
         IN  [ok |-> c.ok, conn |-> c.conn, attempted |-> TRUE]

\* process_devices lines 83-90: the start of a tick
TdCheck ==
    /\ tdc.on /\ tdc.pc = "tick"
    /\ \E useOk \in BOOLEAN :
          LET c == CheckConnection(tdc, useOk)
          IN  tdc' = [tdc EXCEPT !.conn = c.conn,
                                 !.tdengine_connected = c.ok,
                                 !.attempted = c.attempted,
                                 !.failed = c.attempted /\ ~c.ok,
                                 !.pc = "devices", !.idx = 1,
                                 !.results = <<>>]
    /\ UNCHANGED restOfTdc

\* whether execute_update gets the statement through
LinkUp(t) == t.server = "up" /\ (t.use_rest \/ t.conn = "live")

\* lines 102-134 for one device: insert_data unless not connected; its
\* result is True, or False when execute_update raises (the link is gone,
\* or the server rejects the row); self.conn is left as it is
TdInsert ==
    /\ tdc.on /\ tdc.pc = "devices"
    /\ \E rowOk \in BOOLEAN :
          LET result == IF ~tdc.tdengine_connected THEN "skipped"
                        ELSE IF LinkUp(tdc) /\ rowOk THEN "True" ELSE "False"
          IN  tdc' = [tdc EXCEPT
                        !.results = Append(@, result),
                        !.failed = @ \/ (tdc.tdengine_connected /\ ~LinkUp(tdc)),
                        !.idx = @ + 1,
                        !.pc = IF tdc.idx = NumDevices THEN "tick" ELSE "devices"]
    /\ UNCHANGED restOfTdc

\* the server goes away: the link of a native connection is gone
ServerDown ==
    /\ tdc.on /\ tdc.server = "up"
    /\ tdc' = [tdc EXCEPT !.server = "down",
                          !.conn = IF ~tdc.use_rest /\ @ = "live" THEN "dead" ELSE @]
    /\ UNCHANGED restOfTdc

\* the server is back; a connection object whose link went stays as it is
ServerUp ==
    /\ tdc.on /\ tdc.server = "down"
    /\ tdc' = [tdc EXCEPT !.server = "up"]
    /\ UNCHANGED restOfTdc

NextTd == TdCheck \/ TdInsert \/ ServerDown \/ ServerUp

SpecTd == InitTd /\ [][NextTd]_vars

\* ---- claim about the reconnect ----
\* C19: after a tick in which the connection failed (connect returned
\* False, or a write failed because the link was gone) the next tick
\* attempts a connect before it writes; a failed insertion gives the result
\* False and each device is inserted at most once in a tick.
C19_ReconnectOnNextTick ==
    [][/\ (tdc.on /\ tdc.pc = "tick" /\ tdc'.pc = "devices" /\ tdc.failed)
             => tdc'.attempted
       /\ (tdc.on /\ tdc.pc = "devices" /\ tdc'.results # tdc.results)
             => /\ Len(tdc'.results) = Len(tdc.results) + 1
                /\ Len(tdc'.results) <= NumDevices
                /\ (tdc.tdengine_connected /\ ~LinkUp(tdc))
                      => tdc'.results[Len(tdc'.results)] = "False"]_vars

\* =====================================================================
\* The generation state of a parameter across ticks
\* (services/data_generator.py 9-33, 115-171; services/data_writer.py
\*  15-22, 47-76; services/device_service.py 22-56)
\* =====================================================================
MaxGenTime == 14
\* DataWriter.__init__: self.interval = 1.0 (seconds, as CacheTtl)
GenInterval == 1
GenModes == {"LINEAR", "PERIODIC"}

\* generation_params as configured: current_value and time are not
\* configured, step may be
ConfiguredParams == [current_value : {None}, step : StepValues, time : {None}]

\* DataGenerator._generate_linear on the dict params of parameter p: the
\* dict afterwards
GenerateLinearOn(p, params) ==
    LET cur == IF params.current_value = None THEN LegacyLinearStart(p)
               ELSE Val(params.current_value)
        step == StepOf(params)
        bounce == OutOfBounds(cur + step, p.min_value, p.max_value)
        new_value == IF bounce THEN cur + (-step) ELSE cur + step
    IN  [params EXCEPT !.current_value = Some(new_value),
                       !.step = IF bounce THEN Some(-step) ELSE @]

\* DataGenerator._generate_periodic: the time counter starts at 0 and is
\* advanced by one
GeneratePeriodicOn(p, params) ==
    LET t == IF params.time = None THEN 0 ELSE Val(params.time)
    IN  [params EXCEPT !.time = Some(t + 1)]

\* DataGenerator.generate_data: params is parameter.generation_params
\* itself, written in place
GenerateOn(p, params) ==
    IF p.mode = "LINEAR" THEN GenerateLinearOn(p, params)
    ELSE GeneratePeriodicOn(p, params)

\* get_all_devices: Device objects built anew from the rows of the database
RegistryRead(g) == g.registry

\* DataWriter.__init__ with one running device of one parameter in the
\* database; time.time() is far beyond the ttl of the empty cache
InitGen ==
    /\ RestIdleGen
    /\ \E lo \in BoundValues, hi \in BoundValues, dv \in DefaultValues,
          mode \in GenModes, params \in ConfiguredParams :
          /\ ValidBounds(lo, hi)
          /\ gen = [on |-> TRUE,
                    p |-> [mode |-> mode, min_value |-> lo, max_value |-> hi,
                           default_value |-> dv],
                    registry |-> params, cache |-> None,
                    now |-> CacheTtl + 1, last_cache_update |-> 0,
                    ticks |-> 0, started_from |-> None, left |-> None]

\* one iteration of _write_data_loop: refresh the cache when it is older
\* than the ttl, process_devices on the cached device, sleep
GenIterate ==
    /\ gen.on /\ gen.now < MaxGenTime
    /\ \E dt \in GenInterval..(GenInterval + 1) :
          LET refresh == CacheExpired(gen.now, gen.last_cache_update)
              params == IF refresh THEN RegistryRead(gen) ELSE Val(gen.cache)
              after == GenerateOn(gen.p, params)
          IN  /\ after.current_value # None => Abs(Val(after.current_value)) <= ValueCap
              /\ gen' = [gen EXCEPT !.cache = Some(after),
                                    !.last_cache_update = IF refresh THEN gen.now ELSE @,
                                    !.now = @ + dt,
                                    !.ticks = @ + 1,
                                    !.started_from = Some(params),
                                    !.left = Some(after)]
    /\ UNCHANGED restOfGen

NextGen == GenIterate

SpecGen == InitGen /\ [][NextGen]_vars

\* ---- claim about the carried state ----
\* C20: the first tick of a device starts from the configured generation
\* parameters, every later tick starts from the state the tick before it
\* left, cache refresh or not, and the configuration in the registry is
\* never changed.
C20_StateCarriedAcrossTicks ==
    [][(gen.on /\ gen'.ticks = gen.ticks + 1)
          => /\ gen'.registry = gen.registry
             /\ gen.ticks = 0 => gen'.started_from = Some(gen.registry)
             /\ gen.ticks > 0 => gen'.started_from = gen.left]_vars

\* =====================================================================
\* SimulationStateManager.get_state called from several threads
\* (services/simulation_engine.py 238-246)
\* =====================================================================
NumCallers == 2
MaxObjects == 4
Callers == 1..NumCallers
\* DeviceState objects are told apart by a number; 0 is no object
Objects == 1..MaxObjects

\* _states = {}, no DeviceState built, every thread outside get_state
InitCallers ==
    /\ RestIdleCallers
    /\ callers = [on |-> TRUE,
                  states |-> [d \in DeviceIds |-> 0],
                  created |-> 0,
                  made_for |-> [o \in Objects |-> 0],
                  writes |-> [o \in Objects |-> {}],
                  pc |-> [t \in Callers |-> "idle"],
                  device_id |-> [t \in Callers |-> 0],
                  held |-> [t \in Callers |-> 0]]

\* a thread enters get_state(d)
CallGetState(t, d) ==
    /\ callers.on /\ callers.pc[t] \in {"idle", "holding"}
    /\ callers' = [callers EXCEPT !.pc[t] = "test", !.device_id[t] = d,
                                  !.held[t] = 0]
    /\ UNCHANGED restOfCallers

\* line 243: if device_id not in SimulationStateManager._states
TestNotIn(t) ==
    /\ callers.on /\ callers.pc[t] = "test"
    /\ callers' = [callers EXCEPT
                     !.pc[t] = IF callers.states[callers.device_id[t]] = 0
                               THEN "store" ELSE "return"]
    /\ UNCHANGED restOfCallers

\* line 244: _states[device_id] = DeviceState()
StoreNew(t) ==
    /\ callers.on /\ callers.pc[t] = "store"
    /\ callers.created < MaxObjects
    /\ LET o == callers.created + 1
       IN  callers' = [callers EXCEPT
                         !.created = o,
                         !.made_for[o] = callers.device_id[t],
                         !.states[callers.device_id[t]] = o,
                         !.pc[t] = "return"]
    /\ UNCHANGED restOfCallers

\* line 245: return _states[device_id]
ReturnState(t) ==
    /\ callers.on /\ callers.pc[t] = "return"
    /\ callers' = [callers EXCEPT
                     !.held[t] = callers.states[callers.device_id[t]],
                     !.pc[t] = "holding"]
    /\ UNCHANGED restOfCallers

\* the caller writes to the DeviceState it was given
WriteHeld(t) ==
    /\ callers.on /\ callers.pc[t] = "holding"
    /\ t \notin callers.writes[callers.held[t]]
    /\ callers' = [callers EXCEPT !.writes[callers.held[t]] = @ \cup {t}]
    /\ UNCHANGED restOfCallers

NextCallers ==
    \E t \in Callers :
       \/ \E d \in DeviceIds : CallGetState(t, d)
       \/ TestNotIn(t)
       \/ StoreNew(t)
       \/ ReturnState(t)
       \/ WriteHeld(t)

SpecCallers == InitCallers /\ [][NextCallers]_vars

\* ---- claim about concurrent get_state ----
\* C21: whatever the interleaving of get_state calls for a device not yet
\* in the store, one DeviceState is built for it, every caller holds that
\* same object, and what a caller wrote is in the object the store holds.
C21_OneStatePerDevice ==
    /\ \A d \in DeviceIds :
          Cardinality({o \in Objects : callers.on /\ callers.made_for[o] = d}) <= 1
    /\ \A t, u \in Callers :
          (callers.on /\ callers.pc[t] = "holding" /\ callers.pc[u] = "holding"
             /\ callers.device_id[t] = callers.device_id[u])
          => callers.held[t] = callers.held[u]
    /\ \A t \in Callers :
          (callers.on /\ callers.pc[t] = "holding"
             /\ t \in callers.writes[callers.held[t]])
          => callers.states[callers.device_id[t]] = callers.held[t]

\* =====================================================================
\* ModbusService.update called from several threads
\* (services/protocols/modbus_service.py 95-140)
\* =====================================================================
\* the empty dict device_mappings
NoMappings == [d \in {} |-> 0]

\* a running sink with a data store, no device seen, no thread in update
InitAlloc ==
    /\ RestIdleAlloc
    /\ alloc = [on |-> TRUE, device_mappings |-> NoMappings,
                pc |-> [t \in Callers |-> "idle"],
                device_id |-> [t \in Callers |-> 0],
                offset |-> [t \in Callers |-> 0],
                start_register |-> [t \in Callers |-> 0]]

\* a thread enters update(d, data, parameters); lines 97-98 pass
UpdateEnter(t, d) ==
    /\ alloc.on /\ alloc.pc[t] = "idle"
    /\ alloc' = [alloc EXCEPT !.pc[t] = "test", !.device_id[t] = d,
                              !.offset[t] = 0, !.start_register[t] = 0]
    /\ UNCHANGED restOfAlloc

\* line 107: if device_id not in self.device_mappings
UpdateTest(t) ==
    /\ alloc.on /\ alloc.pc[t] = "test"
    /\ alloc' = [alloc EXCEPT
                   !.pc[t] = IF alloc.device_id[t] \in DOMAIN alloc.device_mappings
                             THEN "write" ELSE "offset"]
    /\ UNCHANGED restOfAlloc

\* line 110: offset = 100 + len(self.device_mappings) * 100
UpdateOffset(t) ==
    /\ alloc.on /\ alloc.pc[t] = "offset"
    /\ alloc' = [alloc EXCEPT
                   !.offset[t] = RegisterBase
                                 + Cardinality(DOMAIN alloc.device_mappings) * RegisterBlock,
                   !.pc[t] = "insert"]
    /\ UNCHANGED restOfAlloc

\* line 111: self.device_mappings[device_id] = offset
UpdateInsert(t) ==
    /\ alloc.on /\ alloc.pc[t] = "insert"
    /\ LET d == alloc.device_id[t]
           m == alloc.device_mappings
       IN  alloc' = [alloc EXCEPT
                       !.device_mappings =
                           [x \in DOMAIN m \cup {d} |->
                               IF x = d THEN alloc.offset[t] ELSE m[x]],
                       !.pc[t] = "write"]
    /\ UNCHANGED restOfAlloc

\* lines 113-140: the registers from device_mappings[device_id] on are
\* written and update returns
UpdateWrite(t) ==
    /\ alloc.on /\ alloc.pc[t] = "write"
    /\ alloc' = [alloc EXCEPT
                   !.start_register[t] = alloc.device_mappings[alloc.device_id[t]],
                   !.pc[t] = "idle"]
    /\ UNCHANGED restOfAlloc

NextAlloc ==
    \E t \in Callers :
       \/ \E d \in FieldbusDevices : UpdateEnter(t, d)
       \/ UpdateTest(t)
       \/ UpdateOffset(t)
       \/ UpdateInsert(t)
       \/ UpdateWrite(t)

SpecAlloc == InitAlloc /\ [][NextAlloc]_vars

\* ---- claim about concurrent allocation ----
\* C22: whatever the interleaving of update calls for distinct new device
\* ids, distinct devices have distinct offsets.
C22_DistinctOffsets ==
    alloc.on =>
       \A d, e \in DOMAIN alloc.device_mappings :
          d # e => alloc.device_mappings[d] # alloc.device_mappings[e]

\* ---- claims about what the error injector leaves alone ----
\* C23: for a boolean or a string input, apply returns null, MCAR having
\* triggered, or the input itself, and the call creates or changes no
\* drift state.
C23_NonNumericUntouched ==
    /\ [](err.on /\ err.last.value.kind \in {"bool", "str"}
            => \/ err.last.dropped /\ err.last.result = NullValue
               \/ ~err.last.dropped /\ err.last.result = err.last.value)
    /\ [][(err.on /\ err'.last.value.kind \in {"bool", "str"})
            => /\ err'.drift_accumulated = err.drift_accumulated
               /\ err'.drift_start_time = err.drift_start_time]_vars

\* =====================================================================
\* DataGenerator.generate_data after the strategy: noise and anomaly
\* (services/data_generator.py 28-33, 67-93)
\* =====================================================================
ParameterTypes == {"NUMBER", "BOOLEAN", "STRING"}
AnomalyTypes == {"spike", "drop", "null", "min", "max", "other"}

\* generation_params: a key is absent (None) or set; rates in units of
\* 1/Scale
PostParams ==
    [noise_sigma : {None, Some(0), Some(4)},
     anomaly_rate : {None, Some(0), Some(50), Some(Scale)},
     anomaly_type : {None} \cup {Some(a) : a \in AnomalyTypes}]

\* _apply_noise: params.get("noise_sigma", 0) > 0 adds a gaussian draw
ApplyNoise(value, params, g) ==
    IF params.noise_sigma # None /\ Val(params.noise_sigma) > 0
    THEN Num(value.n + g * Val(params.noise_sigma))
    ELSE value

\* _apply_anomaly: with anomaly_rate > 0 and a draw below it, by
\* anomaly_type (default "spike"): the value times 1.5, 0, None, the
\* lower bound or 0, the upper bound or twice the value; else the value
ApplyAnomaly(value, params, p, u) ==
    IF params.anomaly_rate # None /\ Val(params.anomaly_rate) > 0
       /\ u < Val(params.anomaly_rate)
    THEN LET type == IF params.anomaly_type = None THEN "spike"
                     ELSE Val(params.anomaly_type)
         IN  IF type = "spike" THEN Num((value.n * 150) \div 100)
             ELSE IF type = "drop" THEN Num(0)
             ELSE IF type = "null" THEN NullValue
             ELSE IF type = "min"
                  THEN (IF p.min_value # None THEN Num(Val(p.min_value)) ELSE Num(0))
             ELSE IF type = "max"
                  THEN (IF p.max_value # None THEN Num(Val(p.max_value))
                        ELSE Num(value.n * 2))
             ELSE value
    ELSE value

\* generate_data lines 28-33: only a NUMBER parameter whose value is an
\* int or a float is post-processed
PostProcess(value, p, params, g, u) ==
    IF p.type = "NUMBER" /\ IsNumber(value)
    THEN ApplyAnomaly(ApplyNoise(value, params, g), params, p, u)
    ELSE value

NotGenerated == [value |-> [kind |-> "none", n |-> 0], result |-> NullValue]

InitPost ==
    /\ RestIdlePost
    /\ \E type \in ParameterTypes, lo \in {None, Some(0)}, hi \in {None, Some(100)},
          params \in PostParams :
          post = [on |-> TRUE,
                  p |-> [type |-> type, min_value |-> lo, max_value |-> hi],
                  params |-> params, last |-> NotGenerated]

\* the value a strategy returns for a parameter of a type
StrategyValues(type) ==
    IF type = "NUMBER" THEN {Num(10), Num(-4), Num(0)}
    ELSE IF type = "BOOLEAN" THEN {[kind |-> "bool", n |-> 1], [kind |-> "bool", n |-> 0]}
    ELSE {[kind |-> "str", n |-> 0]}

\* DataGenerator.generate_data for the parameter
PostGenerate ==
    /\ post.on
    /\ \E value \in StrategyValues(post.p.type), g \in {-1, 0, 1},
          u \in RandomDraws :
          post' = [post EXCEPT
                     !.last = [value |-> value,
                               result |-> PostProcess(value, post.p, post.params,
                                                      g, u)]]
    /\ UNCHANGED restOfPost

NextPost == PostGenerate

SpecPost == InitPost /\ [][NextPost]_vars

\* ---- claim about null values ----
\* C24: no MCAR being configured, the value generated for a numeric
\* parameter is never null, whatever the noise and anomaly settings.
C24_NumericNeverNullWithoutMcar ==
    (post.on /\ post.p.type = "NUMBER" /\ post.last.value.kind = "num")
       => post.last.result # NullValue

\* =====================================================================
\* ModbusService.update for devices of several parameters
\* (services/protocols/modbus_service.py 39-140)
\* =====================================================================
MaxRegDevices == 2
MaxParams == 2
RegDevices == 1..MaxRegDevices

\* data.get(param.id): a float in units of 1/Scale (finite or not), a
\* bool, a string, or None for a key that is missing
RegisterInputs ==
    {[kind |-> "num", n |-> 570], [kind |-> "num", n |-> -150],
     [kind |-> "inf", n |-> 0], [kind |-> "bool", n |-> 1],
     [kind |-> "str", n |-> 0], [kind |-> "none", n |-> 0]}

\* python int(): truncation towards zero
IntOf(n) == IF n >= 0 THEN n \div Scale ELSE -((-n) \div Scale)

\* lines 127-136: isinstance(val, (int, float)) covers bool; int() of a
\* value that is not finite raises; everything else gives 0
EncodeRaises(v) == v.kind = "inf"
Encode(v) ==
    IF v.kind = "num" THEN IntOf(v.n) % WordMod
    ELSE IF v.kind = "bool" THEN v.n % WordMod
    ELSE 0

\* line 140: setValues(3, start_register, values) on the holding registers
SetValuesFrom(regs, start, values) ==
    [a \in DOMAIN regs \cup {start + i - 1 : i \in 1..Len(values)} |->
        IF a \in {start + i - 1 : i \in 1..Len(values)}
        THEN values[a - start + 1] ELSE regs[a]]

\* the holding register at an address: 0 until it is written
HoldingRegister(regs, a) == IF a \in DOMAIN regs THEN regs[a] ELSE 0

NoUpdate == [device_id |-> 0, values |-> <<>>, raised |-> FALSE,
             ran |-> FALSE]

\* ModbusService.__new__; each device has its list of parameters
InitHr ==
    /\ RestIdleHr
    /\ \E nparams \in [RegDevices -> 1..MaxParams] :
          hr = [on |-> TRUE, running |-> FALSE, context |-> FALSE,
                nparams |-> nparams, device_mappings |-> NoMappings,
                registers |-> NoMappings, last |-> NoUpdate]

\* ModbusService.start with the setting enabled: a running server on the
\* same port is left alone, else a new data store is built
HrStart ==
    /\ hr.on
    /\ \E samePort \in BOOLEAN :
          IF hr.running /\ samePort THEN hr' = [hr EXCEPT !.last = NoUpdate]
          ELSE hr' = [hr EXCEPT !.running = TRUE, !.context = TRUE,
                                !.registers = NoMappings, !.last = NoUpdate]
    /\ UNCHANGED restOfHr

\* ModbusService.stop
HrStop ==
    /\ hr.on
    /\ hr' = [hr EXCEPT !.running = FALSE, !.last = NoUpdate]
    /\ UNCHANGED restOfHr

\* ModbusService.update(d, data, parameters), values being data.get of
\* the parameters in their order
HrUpdate(d, values) ==
    /\ hr.on
    /\ Len(values) = hr.nparams[d]
    /\ LET called == [device_id |-> d, values |-> values, raised |-> FALSE,
                      ran |-> FALSE]
       IN  IF ~hr.running \/ ~hr.context
           THEN hr' = [hr EXCEPT !.last = called]
           ELSE LET m == Allocate(hr.device_mappings, d)
                IN  IF \E i \in 1..Len(values) : EncodeRaises(values[i])
                    THEN hr' = [hr EXCEPT
                                  !.device_mappings = m,
                                  !.last = [called EXCEPT !.raised = TRUE,
                                                          !.ran = TRUE]]
                    ELSE hr' = [hr EXCEPT
                                  !.device_mappings = m,
                                  !.registers =
                                      SetValuesFrom(@, m[d],
                                          [i \in 1..Len(values) |-> Encode(values[i])]),
                                  !.last = [called EXCEPT !.ran = TRUE]]
    /\ UNCHANGED restOfHr

NextHr ==
    \/ HrStart
    \/ HrStop
    \/ \E d \in RegDevices :
       \E values \in UNION {[1..n -> RegisterInputs] : n \in 1..MaxParams} :
          HrUpdate(d, values)

SpecHr == InitHr /\ [][NextHr]_vars

\* ---- claim about the register encoding ----
\* C25: after an update on a running sink the register at offset + i - 1
\* holds, for the i-th parameter, int(value) mod 2^16 for a number and 1
\* or 0 for a boolean, always within 0..65535; an update on a sink that
\* is not running changes no register and allocates no offset.
C25_RegistersEncodeParameters ==
    /\ [](hr.on /\ hr.last.ran
            => \A i \in 1..Len(hr.last.values) :
                  LET v == hr.last.values[i]
                      r == HoldingRegister(hr.registers,
                               hr.device_mappings[hr.last.device_id] + i - 1)
                  IN  /\ r \in 0..(WordMod - 1)
                      /\ v.kind = "num" => r = IntOf(v.n) % WordMod
                      /\ v.kind = "bool" => r = v.n)
    /\ [][(hr.on /\ hr'.last.device_id # 0 /\ ~hr'.last.ran)
            => /\ hr'.registers = hr.registers
               /\ hr'.device_mappings = hr.device_mappings]_vars

\* =====================================================================
\* OPCUAService: update tasks for one device on the sink's event loop
\* (services/protocols/opcua_service.py 87-148)
\* =====================================================================
NumTasks == 2
Tasks == 1..NumTasks
\* the parameters of the device, in their order
Params == 1..MaxParams

\* A node of the address space is told apart by the task that created it:
\* object node t, variable node <<t, p>>.  self.nodes[device_id] is absent
\* (object 0) or holds an object node and, per parameter id, a variable
\* node (0: no entry).
NoNodes == [object |-> 0, vars |-> [p \in Params |-> 0]]

\* a running server with its loop, an empty address space, no task
InitOpc ==
    /\ RestIdleOpc
    /\ opc = [on |-> TRUE, nodes |-> NoNodes,
              objects |-> {}, variables |-> {}, writable |-> {},
              pc |-> [t \in Tasks |-> "none"],
              param |-> [t \in Tasks |-> 0]]

\* update, lines 89-95: the coroutine is handed to the loop
OpcSubmit(t) ==
    /\ opc.on /\ opc.pc[t] = "none"
    /\ opc' = [opc EXCEPT !.pc[t] = "queued"]
    /\ UNCHANGED restOfOpc

\* _async_update lines 98-103 up to the first await: the test of
\* self.nodes and, for an unknown device, the call of add_object (line 127)
OpcTest(t) ==
    /\ opc.on /\ opc.pc[t] = "queued"
    /\ opc' = [opc EXCEPT !.pc[t] = IF opc.nodes.object = 0 THEN "add_object"
                                    ELSE "write"]
    /\ UNCHANGED restOfOpc

\* line 127 returns; lines 129-143: self.nodes[device_id] is set to the
\* new object with no variables and add_variable is called for the first
\* parameter
OpcObjectAdded(t) ==
    /\ opc.on /\ opc.pc[t] = "add_object"
    /\ opc' = [opc EXCEPT !.objects = @ \cup {t},
                          !.nodes = [object |-> t, vars |-> [p \in Params |-> 0]],
                          !.pc[t] = "add_variable", !.param[t] = 1]
    /\ UNCHANGED restOfOpc

\* line 143 returns; line 144: set_writable is called
OpcVariableAdded(t) ==
    /\ opc.on /\ opc.pc[t] = "add_variable"
    /\ opc' = [opc EXCEPT !.variables = @ \cup {<<t, opc.param[t]>>},
                          !.pc[t] = "set_writable"]
    /\ UNCHANGED restOfOpc

\* line 144 returns; line 145: the variable is entered in
\* self.nodes[device_id]['vars'], looked up now; then the next parameter,
\* or back in _async_update (lines 105-117) the first write_value
OpcWritableSet(t) ==
    /\ opc.on /\ opc.pc[t] = "set_writable"
    /\ LET p == opc.param[t]
       IN  opc' = [opc EXCEPT !.writable = @ \cup {<<t, p>>},
                              !.nodes.vars[p] = t,
                              !.param[t] = IF p < MaxParams THEN p + 1 ELSE 0,
                              !.pc[t] = IF p < MaxParams THEN "add_variable"
                                        ELSE "write"]
    /\ UNCHANGED restOfOpc

\* lines 110-119: the values are written to the variables found in
\* node_info['vars']; no node is created
OpcWrite(t) ==
    /\ opc.on /\ opc.pc[t] = "write"
    /\ opc' = [opc EXCEPT !.pc[t] = "done"]
    /\ UNCHANGED restOfOpc

NextOpc ==
    \E t \in Tasks :
       \/ OpcSubmit(t)
       \/ OpcTest(t)
       \/ OpcObjectAdded(t)
       \/ OpcVariableAdded(t)
       \/ OpcWritableSet(t)
       \/ OpcWrite(t)

SpecOpc == InitOpc /\ [][NextOpc]_vars

\* ---- claim about the nodes of a device ----
\* C26: at most one object node exists for the device and at most one
\* variable node per parameter; once every task handed to the loop has
\* finished, every parameter has exactly one variable node and that node
\* is writable.
C26_OneNodePerDeviceAndParameter ==
    opc.on =>
       /\ Cardinality(opc.objects) <= 1
       /\ \A p \in Params :
             Cardinality({v \in opc.variables : v[2] = p}) <= 1
       /\ (/\ \E t \in Tasks : opc.pc[t] = "done"
           /\ \A t \in Tasks : opc.pc[t] \in {"none", "done"})
             => \A p \in Params :
                   /\ Cardinality({v \in opc.variables : v[2] = p}) = 1
                   /\ {v \in opc.variables : v[2] = p} \subseteq opc.writable

\* =====================================================================
\* DataWriter.start and DataWriter.stop called from several threads
\* (services/data_writer.py 24-44, 49; api/data.py 177-193)
\* =====================================================================
MaxThreads == 3
\* Thread objects made by start, told apart by a number; 0 is None
ThreadIds == 1..MaxThreads

\* DataWriter.__init__: running False, thread None, no call in progress
InitSched ==
    /\ RestIdleSched
    /\ sched = [on |-> TRUE, running |-> FALSE, thread |-> 0,
                made |-> 0, alive |-> {},
                pc |-> [c \in Callers |-> "idle"],
                ret |-> [c \in Callers |-> "none"]]

\* a request thread enters start() or stop()
SchedCall(c, op) ==
    /\ sched.on /\ sched.pc[c] = "idle"
    /\ sched' = [sched EXCEPT !.pc[c] = op, !.ret[c] = "none"]
    /\ UNCHANGED restOfSched

\* start line 26: if not self.running; line 34: return False
StartTest(c) ==
    /\ sched.on /\ sched.pc[c] = "start"
    /\ sched' = [sched EXCEPT
                   !.pc[c] = IF ~sched.running THEN "start_set" ELSE "idle",
                   !.ret[c] = IF ~sched.running THEN "none" ELSE "False"]
    /\ UNCHANGED restOfSched

\* start line 29: self.running = True
StartSet(c) ==
    /\ sched.on /\ sched.pc[c] = "start_set"
    /\ sched' = [sched EXCEPT !.running = TRUE, !.pc[c] = "start_spawn"]
    /\ UNCHANGED restOfSched

\* start lines 30-33: a new Thread is stored in self.thread and started
StartSpawn(c) ==
    /\ sched.on /\ sched.pc[c] = "start_spawn"
    /\ sched.made < MaxThreads
    /\ LET w == sched.made + 1
       IN  sched' = [sched EXCEPT !.made = w, !.thread = w,
                                  !.alive = @ \cup {w},
                                  !.pc[c] = "idle", !.ret[c] = "True"]
    /\ UNCHANGED restOfSched

\* stop line 38: if self.running; line 44: return False
StopTest(c) ==
    /\ sched.on /\ sched.pc[c] = "stop"
    /\ sched' = [sched EXCEPT
                   !.pc[c] = IF sched.running THEN "stop_clear" ELSE "idle",
                   !.ret[c] = IF sched.running THEN "none" ELSE "False"]
    /\ UNCHANGED restOfSched

\* stop line 40: self.running = False
StopClear(c) ==
    /\ sched.on /\ sched.pc[c] = "stop_clear"
    /\ sched' = [sched EXCEPT !.running = FALSE, !.pc[c] = "stop_join"]
    /\ UNCHANGED restOfSched

\* stop lines 41-43: self.thread, as it is now, is joined: the call goes
\* on when that thread has ended
StopJoined(c) ==
    /\ sched.on /\ sched.pc[c] = "stop_join"
    /\ sched.thread \notin sched.alive
    /\ sched' = [sched EXCEPT !.pc[c] = "idle", !.ret[c] = "True"]
    /\ UNCHANGED restOfSched

\* _write_data_loop line 49: a worker that finds running False at its
\* while test ends; one that finds it True takes another tick
WorkerEnds(w) ==
    /\ sched.on /\ w \in sched.alive /\ ~sched.running
    /\ sched' = [sched EXCEPT !.alive = @ \ {w}]
    /\ UNCHANGED restOfSched

NextSched ==
    \/ \E c \in Callers :
          \/ \E op \in {"start", "stop"} : SchedCall(c, op)
          \/ StartTest(c)
          \/ StartSet(c)
          \/ StartSpawn(c)
          \/ StopTest(c)
          \/ StopClear(c)
          \/ StopJoined(c)
    \/ \E w \in ThreadIds : WorkerEnds(w)

SpecSched == InitSched /\ [][NextSched]_vars

\* ---- claim about the number of workers ----
\* C27: whatever the interleaving of start and stop calls, at most one
\* worker loop is alive.
C27_AtMostOneWorker ==
    sched.on => Cardinality(sched.alive) <= 1

\* =====================================================================
\* MQTTService.start and stop under the sink's lock
\* (services/protocols/mqtt_service.py 11-84, api/system.py 28-51)
\* =====================================================================
\* broker settings that differ: two hosts
MqttHosts == {"a", "b"}

\* MQTTService.__new__: no client, not connected, empty config, the lock
\* free (holder 0); the stored settings are any
InitMq ==
    /\ RestIdleMq
    /\ \E enabled \in BOOLEAN, host \in MqttHosts :
          mq = [on |-> TRUE, client |-> FALSE, connected |-> FALSE,
                config |-> "none", lock |-> 0,
                settings |-> [mqtt_enabled |-> enabled, mqtt_host |-> host],
                pc |-> [c \in Callers |-> "idle"],
                new_config |-> [c \in Callers |-> "none"]]

\* ConfigService.update_system_settings: the stored settings change
MqUpdateSettings ==
    /\ mq.on
    /\ \E enabled \in BOOLEAN, host \in MqttHosts :
          /\ mq.settings # [mqtt_enabled |-> enabled, mqtt_host |-> host]
          /\ mq' = [mq EXCEPT !.settings = [mqtt_enabled |-> enabled,
                                           mqtt_host |-> host]]
    /\ UNCHANGED restOfMq

\* a thread calls start() (application startup, update_system_settings) or
\* stop() (shutdown): it goes for the lock, lines 22 and 66
MqCall(c, op) ==
    /\ mq.on /\ mq.pc[c] = "idle"
    /\ mq' = [mq EXCEPT !.pc[c] = op]
    /\ UNCHANGED restOfMq

\* threading.Lock.acquire: only a free lock is taken, whoever holds it
MqAcquire(c) ==
    /\ mq.on /\ mq.pc[c] \in {"start", "stop", "start_stop", "start_stop_go_on"}
    /\ mq.lock = 0
    /\ mq' = [mq EXCEPT !.lock = c,
                        !.pc[c] = IF @ = "start" THEN "start_locked"
                                  ELSE IF @ = "stop" THEN "stop_locked"
                                  ELSE IF @ = "start_stop" THEN "inner_stop"
                                  ELSE "inner_stop_go_on"]
    /\ UNCHANGED restOfMq

\* start lines 23-42 with the lock held: return when disabled and not
\* connected, or connected with the same config; call self.stop() when
\* connected and disabled (then return) or connected with another config
\* (then go on); else go on to connect
MqStartLocked(c) ==
    /\ mq.on /\ mq.pc[c] = "start_locked"
    /\ IF ~mq.settings.mqtt_enabled
       THEN IF mq.connected
            THEN mq' = [mq EXCEPT !.pc[c] = "start_stop"]
            ELSE mq' = [mq EXCEPT !.pc[c] = "idle", !.lock = 0]
       ELSE IF mq.connected /\ mq.config = mq.settings.mqtt_host
            THEN mq' = [mq EXCEPT !.pc[c] = "idle", !.lock = 0]
            ELSE mq' = [mq EXCEPT
                          !.new_config[c] = mq.settings.mqtt_host,
                          !.pc[c] = IF mq.connected THEN "start_stop_go_on"
                                    ELSE "connect"]
    /\ UNCHANGED restOfMq

\* stop lines 67-72 with the lock held, then the lock is released; called
\* from start, start returns or goes on to connect
MqStopLocked(c) ==
    /\ mq.on /\ mq.pc[c] \in {"stop_locked", "inner_stop", "inner_stop_go_on"}
    /\ mq' = [mq EXCEPT !.client = FALSE, !.connected = FALSE, !.lock = 0,
                        !.pc[c] = IF @ = "inner_stop_go_on" THEN "connect"
                                  ELSE "idle"]
    /\ UNCHANGED restOfMq

\* start lines 44-62: the new config is stored and a client made and
\* connected, or the attempt raises; the lock is released
MqConnect(c) ==
    /\ mq.on /\ mq.pc[c] = "connect"
    /\ \E ok \in BOOLEAN :
          mq' = [mq EXCEPT !.config = mq.new_config[c],
                           !.new_config[c] = "none",
                           !.client = ok,
                           !.connected = IF ok THEN @ ELSE FALSE,
                           !.lock = IF @ = c THEN 0 ELSE @,
                           !.pc[c] = "idle"]
    /\ UNCHANGED restOfMq

\* _on_connect with rc 0 and _on_disconnect, on the client's network thread
MqOnConnect ==
    /\ mq.on /\ mq.client /\ ~mq.connected
    /\ mq' = [mq EXCEPT !.connected = TRUE]
    /\ UNCHANGED restOfMq

MqOnDisconnect ==
    /\ mq.on /\ mq.client /\ mq.connected
    /\ mq' = [mq EXCEPT !.connected = FALSE]
    /\ UNCHANGED restOfMq

NextMq ==
    \/ MqUpdateSettings
    \/ MqOnConnect
    \/ MqOnDisconnect
    \/ \E c \in Callers :
          \/ \E op \in {"start", "stop"} : MqCall(c, op)
          \/ MqAcquire(c)
          \/ MqStartLocked(c)
          \/ MqStopLocked(c)
          \/ MqConnect(c)

SpecMq == InitMq /\ [][NextMq]_vars

\* ---- claim about start returning ----
\* C28: a thread in start is never waiting for the sink's lock while it
\* holds that lock itself, a wait that cannot end.
C28_StartNeverWaitsOnOwnLock ==
    mq.on =>
       \A c \in Callers :
          mq.pc[c] \in {"start_stop", "start_stop_go_on"} => mq.lock # c

\* ---- claim about a LINEAR parameter staying within its bounds ----
\* the value a call of the strategy starts from
LinearCurrent ==
    IF lin.current_value # None THEN Val(lin.current_value)
    ELSE IF lin.impl = "engine" THEN LinearStart(lin)
    ELSE LegacyLinearStart(lin)

\* C29: with both bounds set, a call that starts from a value inside
\* [min, max] returns a value inside [min, max], whatever the step.
C29_LinearStaysInBounds ==
    [][(/\ lin.on /\ lin' # lin
        /\ lin.min_value # None /\ lin.max_value # None
        /\ LinearCurrent >= Val(lin.min_value)
        /\ LinearCurrent <= Val(lin.max_value))
          => /\ Val(lin'.value) >= Val(lin.min_value)
             /\ Val(lin'.value) <= Val(lin.max_value)]_vars

\* =====================================================================
\* ModbusService.update for devices with many parameters
\* (services/protocols/modbus_service.py 59-68, 107-140)
\* =====================================================================
\* start line 65: hr = ModbusSequentialDataBlock(0, [0]*10000)
HoldingSize == 10000

\* numbers of parameters of a device: one, a block's worth, one more
ParameterCounts == {1, RegisterBlock, RegisterBlock + 1}

\* as InitHr, with devices of up to RegisterBlock + 1 parameters
InitBlocks ==
    /\ RestIdleHr
    /\ \E nparams \in [RegDevices -> ParameterCounts] :
          hr = [on |-> TRUE, running |-> FALSE, context |-> FALSE,
                nparams |-> nparams, device_mappings |-> NoMappings,
                registers |-> NoMappings, last |-> NoUpdate]

\* update with the same value for every parameter of the device
NextBlocks ==
    \/ HrStart
    \/ HrStop
    \/ \E d \in RegDevices :
       \E v \in {[kind |-> "num", n |-> 570], [kind |-> "bool", n |-> 1]} :
          HrUpdate(d, [i \in 1..hr.nparams[d] |-> v])

SpecBlocks == InitBlocks /\ [][NextBlocks]_vars

\* ---- claim about the blocks ----
\* C30: every register an update writes lies in the block of the updated
\* device and in the holding space, and the registers in the blocks of the
\* other devices stay as they were.
C30_WritesStayInOwnBlock ==
    [][(hr.on /\ hr'.last.ran /\ ~hr'.last.raised)
          => LET d == hr'.last.device_id
                 start == hr'.device_mappings[d]
                 written == {start + i - 1 : i \in 1..Len(hr'.last.values)}
             IN  /\ written \subseteq Block(start)
                 /\ written \subseteq 0..(HoldingSize - 1)
                 /\ \A e \in DOMAIN hr'.device_mappings \ {d} :
                       \A a \in Block(hr'.device_mappings[e]) :
                          HoldingRegister(hr'.registers, a)
                             = HoldingRegister(hr.registers, a)]_vars

====
